---- MODULE Spec2Model ----
(***************************************************************************)
(* A model of the DMPR core (src/dmpr.py): the class DMPR with its         *)
(* configuration, neighbour database, tick scheduler, receive path,        *)
(* per-metric FIB computation and routing-table emission.                  *)
(*                                                                         *)
(* Python dicts keep insertion order and the code depends on it (the first *)
(* key of a paths dict, the order neighbours are relaxed in), so a dict is *)
(* modelled as a sequence of entries [k |-> key, v |-> value] without      *)
(* repeated keys.  Python strings that the code indexes by character (the  *)
(* edge keys "<A>><B>") are sequences of one-character strings.            *)
(***************************************************************************)
EXTENDS Integers, Sequences, FiniteSets, TLC

VARIABLES
    now,                \* the host's clock, what the get_time callback returns
    conf,               \* self._conf (registered = FALSE: None)
    cbs,                \* which callbacks are registered: get_time, packet_tx, routing_table_update
    started,            \* self._started
    rtd,                \* self._rtd (exists = FALSE: the attribute is not set yet)
    fib,                \* self.fib
    routing_table,      \* self._routing_table (none = TRUE: None)
    next_tx_time,       \* self._next_tx_time (None: -1)
    transmitted_now,    \* self.transmitted_now
    op,                 \* the entry point the host called last, with its arguments
    raised,             \* the exception that call ended with ("none": it returned)
    tx_calls,           \* the packet_tx callback invocations of that call, in order
    rtu_calls,          \* the routing_table_update callback invocations of that call
    hist,               \* what an observer remembers of the run since start()
    cmp_in,             \* inputs of a direct _cmp_packets / _cmp_dicts call
    cmp_out,            \* results of that call
    net                 \* the cores of a network of nodes, by node id (<<>>: one core alone)

vars == <<now, conf, cbs, started, rtd, fib, routing_table, next_tx_time,
          transmitted_now, op, raised, tx_calls, rtu_calls, hist, cmp_in, cmp_out,
          net>>

-----------------------------------------------------------------------------
(* Ordered dicts *)

DKeys(d) == {d[i].k : i \in DOMAIN d}

DHas(d, key) == \E i \in DOMAIN d : d[i].k = key

DGet(d, key) == d[CHOOSE i \in DOMAIN d : d[i].k = key].v

\* d[key] = val: an existing key keeps its place, a new key goes last
DPut(d, key, val) ==
    IF DHas(d, key)
    THEN [i \in DOMAIN d |-> IF d[i].k = key THEN [k |-> key, v |-> val] ELSE d[i]]
    ELSE Append(d, [k |-> key, v |-> val])

RECURSIVE FoldL(_, _, _)
\* acc = Op(acc, x) for each x of s in order: a python for loop over s
FoldL(Op(_, _), acc, s) ==
    IF s = <<>> THEN acc ELSE FoldL(Op, Op(acc, Head(s)), Tail(s))

None == -1
NoneAddr == "None"

-----------------------------------------------------------------------------
(* Strings *)

\* the characters of the node ids the model uses
IdChars ==
    [A |-> <<"A">>, B |-> <<"B">>, C |-> <<"C">>, D |-> <<"D">>,
     n1 |-> <<"n", "1">>]

\* "{}>{}".format(a, b)
RouteKey(a, b) == IdChars[a] \o <<">">> \o IdChars[b]

\* a one-character python string compared with a node id
CharIsId(c, id) == <<c>> = IdChars[id]

\* "{}/{}".format(prefix, len): the string as its pieces
PrefixStr(prefix, len) == <<prefix, "/", len>>

RECURSIVE SplitSlash(_)
\* s.split("/")
SplitSlash(s) ==
    IF \A i \in DOMAIN s : s[i] # "/" THEN <<s>>
    ELSE LET i == CHOOSE j \in DOMAIN s : s[j] = "/" /\ \A h \in 1..(j - 1) : s[h] # "/"
         IN <<SubSeq(s, 1, i - 1)>> \o SplitSlash(SubSeq(s, i + 1, Len(s)))

\* str(n) for the path numbers the model reaches
NumStr == <<"1", "2", "3", "4", "5", "6", "7", "8">>

-----------------------------------------------------------------------------
(* Metrics *)

\* the order _recalculate_routing_table computes them in
Metrics == <<"low_loss", "high_bandwidth", "bw_and_loss", "no_cost", "bw_and_cost">>

MetricSet == {Metrics[i] : i \in DOMAIN Metrics}

\* the key of the routing table each metric's FIB is emitted under
TableKey(m) ==
    CASE m = "low_loss" -> "lowest-loss"
      [] m = "high_bandwidth" -> "highest-bandwidth"
      [] m = "bw_and_loss" -> "formular_bw_loss"
      [] m = "no_cost" -> "no-cost"
      [] m = "bw_and_cost" -> "filtered-bw-cost"

\* k1 and k2 of the compound metric
K1 == 1
K2 == 100

\* (k1*(10000000/bw))+(k2*loss); the bandwidths of the model divide 10000000,
\* so python's float quotient is this integer
CompoundMetric(bw, loss) == (K1 * (10000000 \div bw)) + (K2 * loss)

\* the scalar a link has under a metric, from its {loss, bandwidth, cost}
LinkScalar(m, lc) ==
    CASE m = "low_loss" -> lc.loss
      [] m = "high_bandwidth" -> lc.bandwidth
      [] m = "bw_and_loss" -> CompoundMetric(lc.bandwidth, lc.loss)
      [] m = "no_cost" -> lc.cost
      [] m = "bw_and_cost" -> lc.bandwidth

EmptyFib ==
    [low_loss |-> <<>>, high_bandwidth |-> <<>>, bw_and_loss |-> <<>>,
     no_cost |-> <<>>, bw_and_cost |-> <<>>, path_characteristics |-> <<>>]

-----------------------------------------------------------------------------
(* Topology synthesis: _calc_neigh_routing_paths *)

\* _add_all_neighs keeping the first interface a neighbour is found on
AddAllNeighsFirstOnly(neighs, self_id, iface, sender_id, msg) ==
    IF DHas(neighs, sender_id) THEN neighs
    ELSE DPut(neighs, sender_id,
              [next_hop |-> sender_id, networks |-> msg.networks,
               route |-> RouteKey(self_id, sender_id), ifaces |-> <<iface>>])

\* _add_all_neighs, _add_neigh_entries: neighs[sender_id] with the list of
\* interfaces under its one paths key "<self>><sender_id>"
AddAllNeighs(neighs, self_id, iface, sender_id, msg) ==
    IF DHas(neighs, sender_id)
    THEN LET nd == DGet(neighs, sender_id)
         IN IF \E i \in DOMAIN nd.ifaces : nd.ifaces[i] = iface
            THEN neighs
            ELSE DPut(neighs, sender_id, [nd EXCEPT !.ifaces = Append(@, iface)])
    ELSE DPut(neighs, sender_id,
              [next_hop |-> sender_id, networks |-> msg.networks,
               route |-> RouteKey(self_id, sender_id), ifaces |-> <<iface>>])

\* _add_all_othernodes_*: othernode_paths[metric][sender_id] is the metric dict
\* of the sender's routingpaths itself (no copy), and the sender's
\* path_characteristics is stored into that dict under 'path_characteristics'
AddAllOthernodes(others, sender_id, msg) ==
    DPut(others, sender_id, [msg.routingpaths EXCEPT !.aliased = TRUE])

\* the stored message after _add_all_othernodes_* wrote into its metric dicts
AliasedMsg(msg) ==
    IF msg.routingpaths.empty THEN msg
    ELSE [msg EXCEPT !.routingpaths.aliased = TRUE]

\* the loop over self._rtd["interfaces"] and each rx-msg-db
CalcNeighRoutingPaths(self_id, interfaces) ==
    LET perIface(acc, ie) ==
            LET perSender(a, e) ==
                    [neighs |-> AddAllNeighs(a.neighs, self_id, ie.k, e.k, e.v.msg),
                     others |-> IF e.v.msg.routingpaths.empty THEN a.others
                                ELSE AddAllOthernodes(a.others, e.k, e.v.msg)]
            IN FoldL(perSender, acc, ie.v.rx_msg_db)
    IN FoldL(perIface, [neighs |-> <<>>, others |-> <<>>], interfaces)

\* self._rtd["interfaces"] after the synthesis: every stored message with
\* non-empty routingpaths has been written into
AliasedInterfaces(interfaces) ==
    [i \in DOMAIN interfaces |->
        LET db == interfaces[i].v.rx_msg_db
        IN [k |-> interfaces[i].k,
            v |-> [interfaces[i].v EXCEPT !.rx_msg_db =
                      [j \in DOMAIN db |->
                          [k |-> db[j].k,
                           v |-> [db[j].v EXCEPT !.msg = AliasedMsg(db[j].v.msg)]]]]]]

-----------------------------------------------------------------------------
(* Phase A: the entry of each direct neighbour *)

HasConfIface(interfaces, name) == \E i \in DOMAIN interfaces : interfaces[i].name = name

\* for iface in self._conf['interfaces']: if iface['name'] == name: ... break
ConfIface(interfaces, name) ==
    interfaces[CHOOSE i \in DOMAIN interfaces :
                  /\ interfaces[i].name = name
                  /\ \A j \in 1..(i - 1) : interfaces[j].name # name]

\* the comparison that makes a later interface replace the one kept so far
BetterLink(m, new, old) ==
    IF m \in {"high_bandwidth", "bw_and_cost"} THEN new > old ELSE new < old

\* the compression loops keeping the first interface they meet
KeepFirst(m, d, name, val) ==
    IF Len(d) > 0 THEN d ELSE <<[k |-> name, v |-> val]>>

\* the body of the compression loops that keep one interface: an empty dict
\* takes the interface, otherwise each item of the dict is compared with it
KeepBest(m, d, name, val) ==
    IF Len(d) > 0
    THEN FoldL(LAMBDA acc, it : IF BetterLink(m, val, it.v)
                                THEN <<[k |-> name, v |-> val]>> ELSE acc,
               d, d)
    ELSE <<[k |-> name, v |-> val]>>

\* _loss_path_compression, _bandwidth_path_compression,
\* _bw_and_loss_path_compression, _no_cost_path_compression,
\* _bw_and_cost_path_compression
PathCompression(m, interfaces, neigh_data) ==
    LET step(d, name) ==
            IF ~HasConfIface(interfaces, name) THEN d
            ELSE LET lc == ConfIface(interfaces, name).lc
                 IN CASE m = "no_cost" ->
                           IF lc.cost = 0 THEN DPut(d, name, lc.cost) ELSE d
                      [] m = "bw_and_cost" ->
                           IF lc.cost = 0 THEN KeepBest(m, d, name, LinkScalar(m, lc)) ELSE d
                      [] OTHER -> KeepBest(m, d, name, LinkScalar(m, lc))
    IN FoldL(step, <<>>, neigh_data.ifaces)

\* add_loss_entry, add_bandwidth_entry, add_bw_and_loss_entry, add_cost_entry,
\* add_bw_and_cost_entry: weight and paths come from each item of the
\* compressed dict in turn, so the last item stands
AddEntry(compressed, neigh_id, neigh_data, weigh) ==
    DPut(compressed, neigh_id,
         FoldL(LAMBDA e, it : [next_hop |-> e.next_hop, networks |-> e.networks,
                               weight |-> it.v,
                               paths |-> <<[k |-> neigh_data.route, v |-> it.k]>>],
               [next_hop |-> neigh_data.next_hop, networks |-> neigh_data.networks],
               weigh))

\* the first loop of _calc_fib_*: the cost metrics skip a neighbour whose
\* compressed dict is empty
PhaseA(m, interfaces, neighs) ==
    LET step(comp, ne) ==
            LET weigh == PathCompression(m, interfaces, ne.v)
            IN IF m \in {"no_cost", "bw_and_cost"} /\ Len(weigh) = 0
               THEN comp
               ELSE AddEntry(comp, ne.k, ne.v, weigh)
    IN FoldL(step, <<>>, neighs)

-----------------------------------------------------------------------------
(* Phase B: relaxation through the neighbours' advertised FIBs *)

\* id1_in_path = path[0]; id2_in_path = path[2]; either equal to self id
LoopInPath(path, self_id) == CharIsId(path[1], self_id) \/ CharIsId(path[3], self_id)

\* _map_loss_values and its four copies: the entry of dest_id becomes the
\* advertised one through other_id
MapValues(f, other_id, weight_update, dest_id, dest_data) ==
    DPut(f, dest_id, [next_hop |-> other_id, networks |-> dest_data.networks,
                      weight |-> weight_update, paths |-> dest_data.paths])

\* add_shortestloss_path taking a candidate of equal weight too
AddPathOnTie(f, weight_update, other_id, dest_id, dest_data) ==
    IF ~DHas(f, dest_id)
    THEN MapValues(f, other_id, weight_update, dest_id, dest_data)
    ELSE IF weight_update <= DGet(f, dest_id).weight
         THEN MapValues(f, other_id, weight_update, dest_id, dest_data)
         ELSE f

\* add_shortestloss_path and its four copies
AddPath(f, weight_update, other_id, dest_id, dest_data) ==
    IF ~DHas(f, dest_id)
    THEN MapValues(f, other_id, weight_update, dest_id, dest_data)
    ELSE IF weight_update < DGet(f, dest_id).weight
         THEN MapValues(f, other_id, weight_update, dest_id, dest_data)
         ELSE f

\* the relaxation without the test that skips the node's own id as destination
CalcPathAnyDest(m, self_id, f0, others) ==
    LET perOther(st0, o) ==
            LET perDest(st, d) ==
                    IF st.err # "none" THEN st
                    ELSE IF ~DHas(st.f, o.k) THEN [st EXCEPT !.err = "KeyError"]
                    ELSE LET to_neigh == DGet(st.f, o.k).weight
                             weight_update == d.v.weight + to_neigh
                             loop_found == \E i \in DOMAIN d.v.paths :
                                               LoopInPath(d.v.paths[i].k, self_id)
                         IN IF loop_found THEN st
                            ELSE [st EXCEPT !.f = AddPath(st.f, weight_update, o.k, d.k, d.v)]
            IN FoldL(perDest, st0, o.v.m[m])
    IN FoldL(perOther, [f |-> f0, err |-> "none"], others)

\* _calc_shortestloss_path, _calc_widestBW_path, _calc_CompoundBWLoss_path,
\* _calc_nocost_path, _calc_filteredBWCost_path.  st = [f, err]: the metric's
\* FIB so far and the exception raised, after which nothing more is done
CalcPath(m, self_id, f0, others) ==
    LET perOther(st0, o) ==
            LET perDest(st, d) ==
                    IF st.err # "none" \/ d.k = self_id THEN st
                    ELSE IF ~DHas(st.f, o.k) THEN [st EXCEPT !.err = "KeyError"]
                    ELSE LET to_neigh == DGet(st.f, o.k).weight
                             weight_update == d.v.weight + to_neigh
                             loop_found == \E i \in DOMAIN d.v.paths :
                                               LoopInPath(d.v.paths[i].k, self_id)
                         IN IF loop_found THEN st
                            ELSE [st EXCEPT !.f = AddPath(st.f, weight_update, o.k, d.k, d.v)]
            IN FoldL(perDest, st0, o.v.m[m])
    IN FoldL(perOther, [f |-> f0, err |-> "none"], others)

-----------------------------------------------------------------------------
(* Phase C: path-characteristics interning and weights *)

SameCharacteristics(a, b) ==
    a.loss = b.loss /\ a.bandwidth = b.bandwidth /\ a.cost = b.cost

\* _map_path_number(path_data, 1): [name, pc], the name the characteristics
\* are interned under and the table afterwards
MapPathNumber(pc, path_data) ==
    IF \E i \in DOMAIN pc : SameCharacteristics(path_data, pc[i].v)
    THEN [name |-> pc[CHOOSE i \in DOMAIN pc :
                         /\ SameCharacteristics(path_data, pc[i].v)
                         /\ \A j \in 1..(i - 1) : ~SameCharacteristics(path_data, pc[j].v)].k,
          pc |-> pc]
    ELSE LET n == CHOOSE h \in DOMAIN NumStr :
                      /\ ~DHas(pc, NumStr[h])
                      /\ \A j \in 1..(h - 1) : DHas(pc, NumStr[j])
         IN [name |-> NumStr[n], pc |-> Append(pc, [k |-> NumStr[n], v |-> path_data])]

\* _map_path_characteristics_loss and its four copies.  path_num_found is
\* reset once per destination, not once per path: after the first path of a
\* destination was found, a path that is not found is given the number of the
\* last one found
MapPathCharacteristics(interfaces, others, f0, pc0) ==
    LET perDest(st, i) ==
            LET e == st.f[i]
                neigh == (e.k = e.v.next_hop)
                path_info == IF neigh THEN <<>>
                             ELSE DGet(others, e.v.next_hop).path_characteristics
                perPath(ps, j) ==
                    LET path_number == ps.paths[j].v
                        hit == IF neigh THEN HasConfIface(interfaces, path_number)
                               ELSE DHas(path_info, path_number)
                        path_data == IF neigh THEN ConfIface(interfaces, path_number).lc
                                     ELSE DGet(path_info, path_number)
                        r == MapPathNumber(ps.pc, path_data)
                        found == ps.found \/ hit
                        new == IF hit THEN r.name ELSE ps.new
                    IN [paths |-> IF found
                                  THEN [ps.paths EXCEPT ![j] = [k |-> ps.paths[j].k, v |-> new]]
                                  ELSE ps.paths,
                        pc |-> IF hit THEN r.pc ELSE ps.pc,
                        found |-> found,
                        new |-> new]
                res == FoldL(perPath,
                             [paths |-> e.v.paths, pc |-> st.pc, found |-> FALSE, new |-> ""],
                             [j \in DOMAIN e.v.paths |-> j])
            IN [f |-> [st.f EXCEPT ![i] = [k |-> e.k, v |-> [e.v EXCEPT !.paths = res.paths]]],
                pc |-> res.pc]
    IN FoldL(perDest, [f |-> f0, pc |-> pc0], [i \in DOMAIN f0 |-> i])

\* _add_self_to_neigh_losspathnumber and its four copies: twice over the FIB,
\* the paths of each destination's next hop are written into its own paths
AddSelfToNeigh(f0) ==
    LET perDest(st, i) ==
            LET e == st.f[i]
            IN IF st.err # "none" \/ e.k = e.v.next_hop THEN st
               ELSE IF ~DHas(st.f, e.v.next_hop) THEN [st EXCEPT !.err = "KeyError"]
               ELSE LET paths == FoldL(LAMBDA ps, p : DPut(ps, p.k, p.v),
                                       e.v.paths, DGet(st.f, e.v.next_hop).paths)
                    IN [st EXCEPT !.f[i] = [k |-> e.k, v |-> [e.v EXCEPT !.paths = paths]]]
        once(st) == FoldL(perDest, st, [i \in DOMAIN f0 |-> i])
    IN once(once([f |-> f0, err |-> "none"]))

\* what one edge adds to a destination's weight
EdgeWeight(m, path_data) ==
    CASE m = "low_loss" -> path_data.loss
      [] m = "high_bandwidth" -> path_data.bandwidth
      [] m = "bw_and_loss" -> CompoundMetric(path_data.bandwidth, path_data.loss)
      [] m = "no_cost" -> path_data.cost
      [] m = "bw_and_cost" -> path_data.bandwidth

\* _add_lossweight_to_dest adding to the weight the entry has, without the
\* reset to 0
AddWeightToDestAccumulated(m, f, pc) ==
    [i \in DOMAIN f |->
        [k |-> f[i].k,
         v |-> [f[i].v EXCEPT !.weight =
                   FoldL(LAMBDA w, p : IF DHas(pc, p.v)
                                       THEN w + EdgeWeight(m, DGet(pc, p.v)) ELSE w,
                         f[i].v.weight, f[i].v.paths)]]]

\* _add_lossweight_to_dest and its four copies
AddWeightToDest(m, f, pc) ==
    [i \in DOMAIN f |->
        [k |-> f[i].k,
         v |-> [f[i].v EXCEPT !.weight =
                   FoldL(LAMBDA w, p : IF DHas(pc, p.v)
                                       THEN w + EdgeWeight(m, DGet(pc, p.v)) ELSE w,
                         0, f[i].v.paths)]]]

\* _calc_fib_low_loss and its four copies: [f, pc, err], computed in the
\* stages of the code, each from the result of the one before.
\* The weights, from the interned paths c1 and the completed paths c2
CalcFibWeights(m, c1, c2) ==
    IF c2.err # "none" THEN [f |-> c2.f, pc |-> c1.pc, err |-> c2.err]
    ELSE [f |-> AddWeightToDest(m, c2.f, c1.pc), pc |-> c1.pc, err |-> "none"]

CalcFibInterned(m, c1) == CalcFibWeights(m, c1, AddSelfToNeigh(c1.f))

\* from the relaxed FIB b
CalcFibRelaxed(m, interfaces, others, pc0, b) ==
    IF b.err # "none" THEN [f |-> b.f, pc |-> pc0, err |-> b.err]
    ELSE CalcFibInterned(m, MapPathCharacteristics(interfaces, others, b.f, pc0))

\* from the neighbours' entries a
CalcFibNeighs(m, self_id, interfaces, others, pc0, a) ==
    CalcFibRelaxed(m, interfaces, others, pc0,
                   IF Len(others) > 0 THEN CalcPath(m, self_id, a, others)
                   ELSE [f |-> a, err |-> "none"])

CalcFib(m, self_id, interfaces, nrp, pc0) ==
    CalcFibNeighs(m, self_id, interfaces, nrp.others, pc0,
                  PhaseA(m, interfaces, nrp.neighs))

-----------------------------------------------------------------------------
(* Routing table emission *)

\* next_hop_ip_addr(proto, router_id, iface_name): [val, err]
NextHopIpAddr(interfaces, proto, router_id, iface_name) ==
    IF ~DHas(interfaces, iface_name)
    THEN [val |-> NoneAddr, err |-> "InternalException"]
    ELSE IF ~DHas(DGet(interfaces, iface_name).rx_msg_db, router_id)
    THEN [val |-> NoneAddr, err |-> "none"]
    ELSE LET msg == DGet(DGet(interfaces, iface_name).rx_msg_db, router_id).msg
         IN CASE proto = "v4" -> [val |-> msg.addr_v4, err |-> "none"]
              [] proto = "v6" -> [val |-> NoneAddr, err |-> "KeyError"]
              [] OTHER -> [val |-> NoneAddr, err |-> "InternalException"]

\* the fields an interface must share with the interned characteristics of
\* the first edge to be the row's interface
LinkMatches(m, lc, path_data) ==
    CASE m = "no_cost" -> lc.cost = path_data.cost
      [] m = "bw_and_cost" -> lc.cost = path_data.cost /\ lc.bandwidth = path_data.bandwidth
      [] OTHER -> lc.loss = path_data.loss /\ lc.bandwidth = path_data.bandwidth

\* the loop over dest_data['paths'] ends at the path equal to search_key in
\* _calc_loss_routingtable and _calc_bw_routingtable, and after the first
\* path whatever it is in the other three
StopsAfterFirstPath(m) == m \in {"bw_and_loss", "no_cost", "bw_and_cost"}

\* the interface the row gets: [found, name]
RowInterface(m, conf_interfaces, search_key, paths, pc) ==
    LET looked == IF StopsAfterFirstPath(m) THEN SubSeq(paths, 1, 1) ELSE paths
        nothing == [found |-> FALSE, name |-> ""]
    IN IF ~DHas(looked, search_key) THEN nothing
       ELSE LET path_num == DGet(looked, search_key)
            IN IF ~DHas(pc, path_num) THEN nothing
               ELSE LET fib_path_data == DGet(pc, path_num)
                        ok(i) == LinkMatches(m, conf_interfaces[i].lc, fib_path_data)
                    IN IF \E i \in DOMAIN conf_interfaces : ok(i)
                       THEN [found |-> TRUE,
                             name |-> conf_interfaces[
                                 CHOOSE i \in DOMAIN conf_interfaces :
                                     ok(i) /\ \A j \in 1..(i - 1) : ~ok(j)].name]
                       ELSE nothing

\* _calc_loss_routingtable taking prefix and prefix-len from the same piece
\* of the split network string
CalcRoutingTableSamePiece(m, self_id, conf_interfaces, interfaces, f, pc) ==
    LET perDest(st0, e) ==
            LET perNetwork(st, network) ==
                    IF st.err # "none" THEN st
                    ELSE LET ip_pref_len == SplitSlash(network)
                             search_key == RouteKey(self_id, e.v.next_hop)
                             ifc == RowInterface(m, conf_interfaces, search_key, e.v.paths, pc)
                             nh == NextHopIpAddr(interfaces, "v4", e.v.next_hop, ifc.name)
                         IN IF Len(ip_pref_len) < 2 THEN [st EXCEPT !.err = "IndexError"]
                            ELSE IF ~ifc.found THEN [st EXCEPT !.err = "KeyError"]
                            ELSE IF nh.err # "none" THEN [st EXCEPT !.err = nh.err]
                            ELSE [st EXCEPT !.rows = Append(@,
                                     [proto |-> "v4", prefix |-> ip_pref_len[1],
                                      prefix_len |-> ip_pref_len[1],
                                      interface |-> ifc.name, next_hop |-> nh.val])]
            IN FoldL(perNetwork, st0, e.v.networks)
    IN FoldL(perDest, [rows |-> <<>>, err |-> "none"], f)

\* _calc_loss_routingtable and its four copies: [rows, err]; a row without
\* 'interface' ends the computation with KeyError
CalcRoutingTable(m, self_id, conf_interfaces, interfaces, f, pc) ==
    LET perDest(st0, e) ==
            LET perNetwork(st, network) ==
                    IF st.err # "none" THEN st
                    ELSE LET ip_pref_len == SplitSlash(network)
                             search_key == RouteKey(self_id, e.v.next_hop)
                             ifc == RowInterface(m, conf_interfaces, search_key, e.v.paths, pc)
                             nh == NextHopIpAddr(interfaces, "v4", e.v.next_hop, ifc.name)
                         IN IF Len(ip_pref_len) < 2 THEN [st EXCEPT !.err = "IndexError"]
                            ELSE IF ~ifc.found THEN [st EXCEPT !.err = "KeyError"]
                            ELSE IF nh.err # "none" THEN [st EXCEPT !.err = nh.err]
                            ELSE [st EXCEPT !.rows = Append(@,
                                     [proto |-> "v4", prefix |-> ip_pref_len[1],
                                      prefix_len |-> ip_pref_len[2],
                                      interface |-> ifc.name, next_hop |-> nh.val])]
            IN FoldL(perNetwork, st0, e.v.networks)
    IN FoldL(perDest, [rows |-> <<>>, err |-> "none"], f)

-----------------------------------------------------------------------------
(* _recalculate_routing_table *)

\* the state [fib, tables, err] after one more metric: its FIB cfib (with the
\* interned characteristics), then its routing table.  An exception ends the
\* computation and leaves what was assigned up to it
RecalculateTable(st, m, fib1, rt) ==
    [fib |-> fib1,
     tables |-> Append(st.tables, [k |-> TableKey(m), v |-> rt.rows]),
     err |-> rt.err]

RecalculateFib(cf, interfaces, st, m, cfib) ==
    IF cfib.err # "none"
    THEN [st EXCEPT !.fib = [st.fib EXCEPT ![m] = cfib.f,
                                           !.path_characteristics = cfib.pc],
                    !.err = cfib.err]
    ELSE RecalculateTable(st, m,
                          [st.fib EXCEPT ![m] = cfib.f, !.path_characteristics = cfib.pc],
                          CalcRoutingTable(m, cf.id, cf.interfaces, interfaces,
                                           cfib.f, cfib.pc))

RecalculateMetric(cf, interfaces, nrp, st, m) ==
    IF st.err # "none" THEN st
    ELSE RecalculateFib(cf, interfaces, st, m,
                        CalcFib(m, cf.id, cf.interfaces, nrp, st.fib.path_characteristics))

\* [fib, routing_table, interfaces, err, updates]: the state the call leaves
\* and the tables it hands to the routing_table_update callback, which an
\* exception skips
RecalculateResult(interfaces, r) ==
    [fib |-> r.fib,
     routing_table |-> [none |-> FALSE, tables |-> r.tables],
     interfaces |-> interfaces,
     err |-> r.err,
     updates |-> IF r.err = "none"
                 THEN <<[none |-> FALSE, tables |-> r.tables]>> ELSE <<>>]

\* _recalculate_routing_table without the reset of self.fib
RecalculateFromKept(cf, interfaces, nrp) ==
    RecalculateResult(interfaces,
        FoldL(LAMBDA st, m : RecalculateMetric(cf, interfaces, nrp, st, m),
              [fib |-> fib, tables |-> <<>>, err |-> "none"], Metrics))

RecalculateFrom(cf, interfaces, nrp) ==
    RecalculateResult(interfaces,
        FoldL(LAMBDA st, m : RecalculateMetric(cf, interfaces, nrp, st, m),
              [fib |-> EmptyFib, tables |-> <<>>, err |-> "none"], Metrics))

Recalculate(cf, interfaces0) ==
    RecalculateFrom(cf, AliasedInterfaces(interfaces0),
                    CalcNeighRoutingPaths(cf.id, interfaces0))

-----------------------------------------------------------------------------
(* _cmp_dicts and _cmp_packets, over python values:                        *)
(* [t |-> "none"], [t |-> "int", i |-> n], [t |-> "str", s |-> string],    *)
(* [t |-> "list", l |-> sequence of values], [t |-> "dict", d |-> dict]    *)

PyNone == [t |-> "none"]
PyInt(n) == [t |-> "int", i |-> n]
PyStr(x) == [t |-> "str", s |-> x]
PyList(x) == [t |-> "list", l |-> x]
PyDict(x) == [t |-> "dict", d |-> x]

RECURSIVE PyEq(_, _)
\* python's a == b
PyEq(a, b) ==
    IF a.t # b.t THEN FALSE
    ELSE CASE a.t = "dict" ->
                /\ DKeys(a.d) = DKeys(b.d)
                /\ \A i \in DOMAIN a.d : PyEq(a.d[i].v, DGet(b.d, a.d[i].k))
           [] a.t = "list" ->
                /\ Len(a.l) = Len(b.l)
                /\ \A i \in DOMAIN a.l : PyEq(a.l[i], b.l[i])
           [] OTHER -> a = b

RECURSIVE CmpDicts(_, _)
\* _cmp_dicts without the comparison of the numbers of keys
CmpDictsAnyLength(dict1, dict2) ==
    IF dict1.t = "none" \/ dict2.t = "none" THEN FALSE
    ELSE IF dict1.t # "dict" \/ dict2.t # "dict" THEN FALSE
    ELSE LET perKey(st, e) ==
                 IF st.ret THEN st
                 ELSE IF ~DHas(dict2.d, e.k) THEN [st EXCEPT !.ret = TRUE]
                 ELSE IF e.v.t = "dict"
                      THEN [st EXCEPT !.eq = st.eq /\ CmpDicts(e.v, DGet(dict2.d, e.k))]
                      ELSE [st EXCEPT !.eq = st.eq /\ PyEq(e.v, DGet(dict2.d, e.k))]
             res == FoldL(perKey, [ret |-> FALSE, eq |-> TRUE], dict1.d)
         IN IF res.ret THEN FALSE ELSE res.eq

\* _cmp_dicts(dict1, dict2).  The loop's state is [ret, eq]: ret is TRUE once
\* the loop has returned False from inside
CmpDicts(dict1, dict2) ==
    IF dict1.t = "none" \/ dict2.t = "none" THEN FALSE
    ELSE IF dict1.t # "dict" \/ dict2.t # "dict" THEN FALSE
    ELSE LET shared_keys == DKeys(dict2.d) \cap DKeys(dict2.d)
             perKey(st, e) ==
                 IF st.ret THEN st
                 ELSE IF ~DHas(dict2.d, e.k) THEN [st EXCEPT !.ret = TRUE]
                 ELSE IF e.v.t = "dict"
                      THEN [st EXCEPT !.eq = st.eq /\ CmpDicts(e.v, DGet(dict2.d, e.k))]
                      ELSE [st EXCEPT !.eq = st.eq /\ PyEq(e.v, DGet(dict2.d, e.k))]
             res == FoldL(perKey, [ret |-> FALSE, eq |-> TRUE], dict1.d)
         IN IF (~(Cardinality(shared_keys) = Len(dict1.d)))
               /\ Cardinality(shared_keys) = Len(dict2.d)
            THEN FALSE
            ELSE IF res.ret THEN FALSE ELSE res.eq

\* p1 = copy.deepcopy(packet1); p1['sequence-no'] = 0
Zeroized(packet) == PyDict(DPut(packet.d, "sequence-no", PyInt(0)))

\* _cmp_packets comparing the packets as they are
CmpPacketsUnmasked(packet1, packet2) == CmpDicts(packet1, packet2)

\* _cmp_packets(packet1, packet2): both copied, 'sequence-no' of each copy set
\* to 0, then compared
CmpPackets(packet1, packet2) == CmpDicts(Zeroized(packet1), Zeroized(packet2))

\* the two arguments as _cmp_packets leaves them: it wrote into the deep
\* copies only
CmpPacketsArgs(packet1, packet2) == [p |-> packet1, q |-> packet2]

\* an advertisement as the python dict it is
EntryToPy(e) ==
    PyDict(<<[k |-> "next-hop", v |-> PyStr(e.next_hop)],
             [k |-> "networks",
              v |-> PyList([i \in DOMAIN e.networks |->
                       PyDict(<<[k |-> "v4-prefix", v |-> PyStr(e.networks[i])]>>)])],
             [k |-> "weight", v |-> PyInt(e.weight)],
             [k |-> "paths",
              v |-> PyDict([i \in DOMAIN e.paths |->
                       [k |-> e.paths[i].k, v |-> PyStr(e.paths[i].v)]])]>>)

CharacteristicsToPy(pc) ==
    PyDict([i \in DOMAIN pc |->
        [k |-> pc[i].k,
         v |-> PyDict(<<[k |-> "loss", v |-> PyInt(pc[i].v.loss)],
                        [k |-> "bandwidth", v |-> PyInt(pc[i].v.bandwidth)],
                        [k |-> "cost", v |-> PyInt(pc[i].v.cost)]>>)]])

RoutingpathsToPy(rp) ==
    IF rp.empty THEN PyDict(<<>>)
    ELSE LET metric(m) ==
                 LET dests == [i \in DOMAIN rp.m[m] |->
                                  [k |-> rp.m[m][i].k, v |-> EntryToPy(rp.m[m][i].v)]]
                 IN PyDict(IF rp.aliased
                           THEN Append(dests, [k |-> "path_characteristics",
                                               v |-> CharacteristicsToPy(rp.path_characteristics)])
                           ELSE dests)
         IN PyDict([i \in DOMAIN Metrics |-> [k |-> Metrics[i], v |-> metric(Metrics[i])]]
                   \o <<[k |-> "path_characteristics",
                         v |-> CharacteristicsToPy(rp.path_characteristics)]>>)

MsgToPy(msg) ==
    PyDict(<<[k |-> "id", v |-> PyStr(msg.id)],
             [k |-> "sequence-no", v |-> PyInt(msg.seq_no)],
             [k |-> "originator-addr-v4", v |-> PyStr(msg.addr_v4)],
             [k |-> "networks",
              v |-> PyList([i \in DOMAIN msg.networks |->
                       PyDict(<<[k |-> "v4-prefix", v |-> PyStr(msg.networks[i])]>>)])],
             [k |-> "routingpaths", v |-> RoutingpathsToPy(msg.routingpaths)]>>)

-----------------------------------------------------------------------------
(* The object's state and its entry points *)

NoConf ==
    [registered |-> FALSE, id |-> "", interval |-> 0, jitter |-> 0, hold |-> 0,
     interfaces |-> <<>>, networks |-> <<>>, mcast_v4 |-> "", mcast_v6 |-> ""]

NoRoutingTable == [none |-> TRUE, tables |-> <<>>]

\* the label of a host call
OpOf(name) == [name |-> name, iface |-> "", id |-> "", seq |-> None]

\* what is remembered of the run since the last start(): its time, whether
\* tick() was called in the current second, the time of the last transmission and how long after
\* the transmission before it (after start() for the first one) it came, and
\* for each interface and sender the sequence number stored last, with the
\* one it took the place of (None: the record was created)
NoHist == [start |-> None, ticked |-> FALSE, last_tx |-> None, waited |-> None,
           first_tx |-> FALSE, stored |-> {}]

\* __init__: no configuration, no callback, stop(init=True)
Init ==
    /\ now = 0
    /\ conf = NoConf
    /\ cbs = [get_time |-> FALSE, packet_tx |-> FALSE, routing_table_update |-> FALSE]
    /\ started = FALSE
    /\ rtd = [exists |-> FALSE, interfaces |-> <<>>]
    /\ fib = EmptyFib
    /\ routing_table = NoRoutingTable
    /\ next_tx_time = None
    /\ transmitted_now = FALSE
    /\ op = OpOf("init")
    /\ raised = "none"
    /\ tx_calls = <<>>
    /\ rtu_calls = <<>>
    /\ hist = NoHist
    /\ cmp_in = [p |-> PyNone, q |-> PyNone]
    /\ cmp_out = [done |-> FALSE, pp |-> FALSE, pq |-> FALSE, qp |-> FALSE]
    /\ net = <<>>

\* a call that ends leaving the object as it was
Returns(exc) ==
    /\ raised' = exc
    /\ tx_calls' = <<>>
    /\ rtu_calls' = <<>>
    /\ UNCHANGED <<now, conf, cbs, started, rtd, fib, routing_table, next_tx_time,
                   transmitted_now, hist, cmp_in, cmp_out, net>>

\* the host's clock moves on by one second
AdvanceTime(max_time) ==
    /\ now < max_time
    /\ now' = now + 1
    /\ op' = OpOf("time")
    /\ raised' = "none"
    /\ tx_calls' = <<>>
    /\ rtu_calls' = <<>>
    /\ hist' = [hist EXCEPT !.ticked = FALSE]
    /\ UNCHANGED <<conf, cbs, started, rtd, fib, routing_table, next_tx_time,
                   transmitted_now, cmp_in, cmp_out, net>>

\* register_get_time_cb, register_msg_tx_cb, register_routing_table_update_cb
RegisterCb(name) ==
    /\ ~cbs[name]
    /\ cbs' = [cbs EXCEPT ![name] = TRUE]
    /\ op' = OpOf("register_cb")
    /\ raised' = "none"
    /\ tx_calls' = <<>>
    /\ rtu_calls' = <<>>
    /\ UNCHANGED <<now, conf, started, rtd, fib, routing_table, next_tx_time,
                   transmitted_now, hist, cmp_in, cmp_out, net>>

\* The dict the host passes to register_configuration: the complete
\* configuration full with one thing about it changed. A dict without a key
\* is a record without the field. defect is
\*   "none"                 nothing,
\*   "empty"                the dict is {},
\*   "no_id", "no_interfaces", "no_networks", "no_mcast_v4", "no_mcast_v6"
\*                          the key is left out,
\*   "id_not_str"           id is a number,
\*   "interfaces_not_list", "networks_not_list"   the value is {},
\*   "no_interface"         interfaces is [],
\*   "iface_no_name", "iface_no_addr", "iface_no_lc"
\*                          entry number at of interfaces is without the key,
\*   "net_no_proto", "net_no_prefix", "net_no_prefix_len"
\*                          entry number at of networks is without the key,
\*   "no_hold_jitter"       rtn-msg-hold-time and rtn-msg-interval-jitter are
\*                          left out,
\*   "no_timers"            rtn-msg-interval is left out as well.
ConfigurationOf(full, defect, at) == [full |-> full, defect |-> defect, at |-> at]

\* DMPRConfigDefaults.rtn_msg_*: the strings "30", str(int(int("30") / 4)) and
\* str(int("30") * 3), which every use reads through int(); the model keeps
\* the numbers
RtnMsgInterval == 30

RtnMsgIntervalJitter == RtnMsgInterval \div 4

RtnMsgHoldTime == RtnMsgInterval * 3

\* DMPRConfigDefaults.LINK_CHARACTERISITCS_*: strings
DefaultLinkCharacteristics == [loss |-> "0", bandwidth |-> "5000", cost |-> "0"]

\* configuration["interfaces"] as passed
InterfacesPassed(configuration) ==
    LET entry(i) ==
            LET e == configuration.full.interfaces[i]
            IN IF configuration.at # i THEN e
               ELSE CASE configuration.defect = "iface_no_name" ->
                             [addr_v4 |-> e.addr_v4, lc |-> e.lc]
                      [] configuration.defect = "iface_no_addr" ->
                             [name |-> e.name, lc |-> e.lc]
                      [] configuration.defect = "iface_no_lc" ->
                             [name |-> e.name, addr_v4 |-> e.addr_v4]
                      [] OTHER -> e
    IN IF configuration.defect \in {"interfaces_not_list", "no_interface"} THEN <<>>
       ELSE [i \in DOMAIN configuration.full.interfaces |-> entry(i)]

\* the loop of process_conf over the interface entries, the time callback
\* registered or not: the exception it ends with and the list as the loop
\* leaves it, the caller's entries without link-characteristics given the
\* defaults up to the entry that raised
InterfacesProcessed(interfaces, clock) ==
    LET failure(e) ==
            IF "name" \notin DOMAIN e \/ "addr_v4" \notin DOMAIN e
            THEN "ConfigurationException"
            ELSE IF "lc" \notin DOMAIN e /\ ~clock THEN "AttributeError"
            ELSE "none"
        step(acc, e) ==
            IF acc.err # "none" THEN [acc EXCEPT !.list = Append(@, e)]
            ELSE IF failure(e) # "none"
            THEN [err |-> failure(e), list |-> Append(acc.list, e)]
            ELSE [err |-> "none",
                  list |-> Append(acc.list,
                                  IF "lc" \in DOMAIN e THEN e
                                  ELSE [name |-> e.name, addr_v4 |-> e.addr_v4,
                                        lc |-> DefaultLinkCharacteristics])]
    IN FoldL(step, [err |-> "none", list |-> <<>>], interfaces)

\* process_conf, the time callback registered or not: the exception it ends
\* with and self._conf as it leaves it, which is assigned an empty dict first
\* and filled key by key as the checks pass
ProcessConf(configuration, clock) ==
    LET c == configuration.full
        d == configuration.defect
        processed == InterfacesProcessed(InterfacesPassed(configuration), clock)
        interval == IF d = "no_timers" THEN RtnMsgInterval ELSE c.interval
        jitter == IF d \in {"no_timers", "no_hold_jitter"}
                  THEN RtnMsgIntervalJitter ELSE c.jitter
        hold == IF d \in {"no_timers", "no_hold_jitter"}
                THEN RtnMsgHoldTime ELSE c.hold
        k0 == [registered |-> TRUE, interval |-> interval, jitter |-> jitter,
               hold |-> hold]
        k1 == [registered |-> TRUE, interval |-> interval, jitter |-> jitter,
               hold |-> hold, id |-> c.id]
        k2 == [registered |-> TRUE, interval |-> interval, jitter |-> jitter,
               hold |-> hold, id |-> c.id, interfaces |-> processed.list]
        k3 == [registered |-> TRUE, interval |-> interval, jitter |-> jitter,
               hold |-> hold, id |-> c.id, interfaces |-> processed.list,
               networks |-> c.networks]
        k4 == [registered |-> TRUE, interval |-> interval, jitter |-> jitter,
               hold |-> hold, id |-> c.id, interfaces |-> processed.list,
               networks |-> c.networks, mcast_v4 |-> c.mcast_v4]
        k4n == [registered |-> TRUE, interval |-> interval, jitter |-> jitter,
               hold |-> hold, id |-> c.id, interfaces |-> processed.list,
                mcast_v4 |-> c.mcast_v4, mcast_v6 |-> c.mcast_v6]
        raises(stored) == [err |-> "ConfigurationException", conf |-> stored]
    IN IF d \in {"no_id", "id_not_str"} THEN raises(k0)
       ELSE IF d = "no_interfaces" THEN raises(k1)
       ELSE IF d \in {"interfaces_not_list", "no_interface"} THEN raises(k2)
       ELSE IF processed.err # "none" THEN [err |-> processed.err, conf |-> k2]
       ELSE IF d \in {"networks_not_list", "net_no_proto", "net_no_prefix",
                      "net_no_prefix_len"} THEN raises(k2)
       ELSE IF d = "no_mcast_v4" THEN raises(k3)
       ELSE IF d = "no_mcast_v6" THEN raises(k4)
       ELSE IF d = "no_networks" THEN [err |-> "none", conf |-> k4n]
       ELSE [err |-> "none",
             conf |-> [c EXCEPT !.interfaces = processed.list, !.interval = interval,
                                !.jitter = jitter, !.hold = hold]]

\* register_configuration: {} fails its assertion, anything else goes
\* through process_conf
RegisterConfiguration(configuration) ==
    LET done == IF configuration.defect = "empty"
                THEN [err |-> "AssertionError", conf |-> conf]
                ELSE ProcessConf(configuration, cbs.get_time)
    IN /\ conf' = done.conf
       /\ op' = [name |-> "register_configuration", iface |-> "", id |-> "",
                 seq |-> None, configuration |-> configuration]
       /\ raised' = done.err
       /\ tx_calls' = <<>>
       /\ rtu_calls' = <<>>
       /\ UNCHANGED <<now, cbs, started, rtd, fib, routing_table, next_tx_time,
                      transmitted_now, hist, cmp_in, cmp_out, net>>

\* the entries of self._conf["interfaces"] that the loop of
\* _init_runtime_data gets through: all of them, those before the first one
\* without a name, none when self._conf has no interfaces
InterfacesNamed(cf) ==
    IF "interfaces" \notin DOMAIN cf THEN <<>>
    ELSE LET unnamed == {i \in DOMAIN cf.interfaces : "name" \notin DOMAIN cf.interfaces[i]}
         IN IF unnamed = {} THEN cf.interfaces
            ELSE SubSeq(cf.interfaces, 1,
                        (CHOOSE i \in unnamed : \A j \in unnamed : i <= j) - 1)

\* the exception _init_runtime_data ends with ("none": it completes)
InitRuntimeDataFails(cf) ==
    IF "interfaces" \notin DOMAIN cf
       \/ \E i \in DOMAIN cf.interfaces : "name" \notin DOMAIN cf.interfaces[i]
    THEN "KeyError"
    ELSE "none"

\* _init_runtime_data leaving the containers of an earlier run in place
InitRuntimeDataKept(cf) ==
    IF rtd.exists THEN rtd
    ELSE [exists |-> TRUE,
          interfaces |-> [i \in DOMAIN InterfacesNamed(cf) |->
                            [k |-> InterfacesNamed(cf)[i].name,
                             v |-> [seq_no_tx |-> 0, rx_msg_db |-> <<>>]]]]

\* _init_runtime_data: one container per configured interface name
InitRuntimeData(cf) ==
    LET perIface(acc, interface) ==
            DPut(acc, interface.name, [seq_no_tx |-> 0, rx_msg_db |-> <<>>])
    IN [exists |-> TRUE, interfaces |-> FoldL(perIface, <<>>, InterfacesNamed(cf))]

\* _calc_next_tx_time with random.randint(0, jitter) = r
CalcNextTxTime(cf, last, t, r) == t + (IF last = None THEN 0 ELSE cf.interval) + r

\* the exception start() ends with before it changes anything ("none": it goes on)
StartFails ==
    IF ~cbs.get_time \/ ~cbs.routing_table_update \/ ~cbs.packet_tx THEN "AttributeError"
    ELSE IF ~conf.registered \/ ~routing_table.none THEN "AssertionError"
    ELSE "none"

\* the part of start() after its assertions
StartBody(last_next_tx_time) ==
    \E r \in 0..conf.jitter :
        /\ rtd' = InitRuntimeData(conf)
        /\ fib' = EmptyFib
        /\ next_tx_time' = CalcNextTxTime(conf, last_next_tx_time, now, r)
        /\ started' = TRUE
        /\ hist' = [NoHist EXCEPT !.start = now]

\* start() ending in _init_runtime_data, self._rtd assigned and the FIB not yet
StartBodyFails ==
    /\ rtd' = InitRuntimeData(conf)
    /\ raised' = InitRuntimeDataFails(conf)
    /\ UNCHANGED <<fib, hist>>

Start ==
    /\ op' = OpOf("start")
    /\ IF StartFails # "none" THEN Returns(StartFails)
       ELSE IF InitRuntimeDataFails(conf) # "none"
       THEN /\ StartBodyFails
            /\ tx_calls' = <<>>
            /\ rtu_calls' = <<>>
            /\ UNCHANGED <<now, conf, cbs, started, routing_table, next_tx_time,
                           transmitted_now, cmp_in, cmp_out, net>>
       ELSE /\ StartBody(next_tx_time)
            /\ raised' = "none"
            /\ tx_calls' = <<>>
            /\ rtu_calls' = <<>>
            /\ UNCHANGED <<now, conf, cbs, routing_table, transmitted_now, cmp_in, cmp_out, net>>

\* stop(): _started is cleared before the clock is read
Stop ==
    /\ op' = OpOf("stop")
    /\ started' = FALSE
    /\ raised' = IF cbs.get_time THEN "none" ELSE "AttributeError"
    /\ routing_table' = IF cbs.get_time THEN NoRoutingTable ELSE routing_table
    /\ next_tx_time' = IF cbs.get_time THEN None ELSE next_tx_time
    /\ tx_calls' = <<>>
    /\ rtu_calls' = <<>>
    /\ UNCHANGED <<now, conf, cbs, rtd, fib, transmitted_now, hist, cmp_in, cmp_out, net>>

\* restart(): stop() then start()
Restart ==
    /\ op' = OpOf("restart")
    /\ tx_calls' = <<>>
    /\ rtu_calls' = <<>>
    /\ UNCHANGED <<now, conf, cbs, transmitted_now, cmp_in, cmp_out, net>>
    /\ IF ~cbs.get_time \/ ~cbs.routing_table_update \/ ~cbs.packet_tx \/ ~conf.registered
       THEN /\ started' = FALSE
            /\ raised' = IF ~cbs.get_time \/ ~cbs.routing_table_update \/ ~cbs.packet_tx
                         THEN "AttributeError" ELSE "AssertionError"
            /\ routing_table' = IF cbs.get_time THEN NoRoutingTable ELSE routing_table
            /\ next_tx_time' = IF cbs.get_time THEN None ELSE next_tx_time
            /\ UNCHANGED <<rtd, fib, hist>>
       ELSE IF InitRuntimeDataFails(conf) # "none"
       THEN /\ started' = FALSE
            /\ routing_table' = NoRoutingTable
            /\ next_tx_time' = None
            /\ StartBodyFails
       ELSE /\ routing_table' = NoRoutingTable
            /\ StartBody(None)
            /\ raised' = "none"

-----------------------------------------------------------------------------
(* tick *)

\* _check_outdated_route_entries deleting at the hold time already
CheckOutdatedRouteEntriesEarly(cf, interfaces, t) ==
    LET outdated(vv) == t - vv.rx_time >= cf.hold
        kept(db) == SelectSeq(db, LAMBDA e : ~outdated(e.v))
    IN [interfaces |-> [i \in DOMAIN interfaces |->
                           [k |-> interfaces[i].k,
                            v |-> [interfaces[i].v EXCEPT !.rx_msg_db = kept(@)]]],
        recalc |-> \E i \in DOMAIN interfaces :
                       \E j \in DOMAIN interfaces[i].v.rx_msg_db :
                           outdated(interfaces[i].v.rx_msg_db[j].v)]

\* _check_outdated_route_entries at time t: [interfaces, recalc]
CheckOutdatedRouteEntries(cf, interfaces, t) ==
    LET outdated(vv) == t - vv.rx_time > cf.hold
        kept(db) == SelectSeq(db, LAMBDA e : ~outdated(e.v))
    IN [interfaces |-> [i \in DOMAIN interfaces |->
                           [k |-> interfaces[i].k,
                            v |-> [interfaces[i].v EXCEPT !.rx_msg_db = kept(@)]]],
        recalc |-> \E i \in DOMAIN interfaces :
                       \E j \in DOMAIN interfaces[i].v.rx_msg_db :
                           outdated(interfaces[i].v.rx_msg_db[j].v)]

\* conf_originator_addr_by_iface_v4
ConfOriginatorAddr(cf, iface_name) ==
    IF HasConfIface(cf.interfaces, iface_name)
    THEN ConfIface(cf.interfaces, iface_name).addr_v4
    ELSE NoneAddr

\* create_routing_msg listing every configured network, whatever its proto
CreateRoutingMsgAnyProto(cf, f, seq_no, interface_name) ==
    [id |-> cf.id,
     seq_no |-> seq_no,
     addr_v4 |-> ConfOriginatorAddr(cf, interface_name),
     networks |-> [i \in DOMAIN cf.networks |->
                     PrefixStr(cf.networks[i].prefix, cf.networks[i].prefix_len)],
     routingpaths |->
         IF \E m \in MetricSet : Len(f[m]) > 0
         THEN [empty |-> FALSE, m |-> [mm \in MetricSet |-> f[mm]],
               path_characteristics |-> f.path_characteristics, aliased |-> FALSE]
         ELSE [empty |-> TRUE, m |-> [mm \in MetricSet |-> <<>>],
               path_characteristics |-> <<>>, aliased |-> FALSE]]

\* create_routing_msg leaving the FIB out of the advertisement
CreateRoutingMsgOwnOnly(cf, f, seq_no, interface_name) ==
    LET v4 == SelectSeq(cf.networks, LAMBDA network : network.proto = "v4")
    IN [id |-> cf.id,
        seq_no |-> seq_no,
        addr_v4 |-> ConfOriginatorAddr(cf, interface_name),
        networks |-> [i \in DOMAIN v4 |-> PrefixStr(v4[i].prefix, v4[i].prefix_len)],
        routingpaths |-> [empty |-> TRUE, m |-> [mm \in MetricSet |-> <<>>],
                          path_characteristics |-> <<>>, aliased |-> FALSE]]

\* create_routing_msg, with the sequence number it reads
CreateRoutingMsg(cf, f, seq_no, interface_name) ==
    LET v4 == SelectSeq(cf.networks, LAMBDA network : network.proto = "v4")
    IN [id |-> cf.id,
        seq_no |-> seq_no,
        addr_v4 |-> ConfOriginatorAddr(cf, interface_name),
        networks |-> [i \in DOMAIN v4 |-> PrefixStr(v4[i].prefix, v4[i].prefix_len)],
        routingpaths |->
            IF \E m \in MetricSet : Len(f[m]) > 0
            THEN [empty |-> FALSE, m |-> [mm \in MetricSet |-> f[mm]],
                  path_characteristics |-> f.path_characteristics, aliased |-> FALSE]
            ELSE [empty |-> TRUE, m |-> [mm \in MetricSet |-> <<>>],
                  path_characteristics |-> <<>>, aliased |-> FALSE]]

\* tx_route_packet sending every advertisement twice
TxRoutePacketTwice(cf, interfaces, f) ==
    LET perIface(acc, ie) ==
            LET call == [interface_name |-> ie.k, proto |-> "v4", dst |-> cf.mcast_v4,
                         msg |-> CreateRoutingMsg(cf, f, ie.v.seq_no_tx, ie.k)]
            IN [interfaces |-> DPut(acc.interfaces, ie.k,
                                    [ie.v EXCEPT !.seq_no_tx = @ + 1]),
                calls |-> acc.calls \o <<call, call>>]
    IN FoldL(perIface, [interfaces |-> interfaces, calls |-> <<>>], interfaces)

\* tx_route_packet building its advertisements from the FIB as it was when
\* tick() was called
TxRoutePacketStale(cf, interfaces, f) ==
    LET perIface(acc, ie) ==
            [interfaces |-> DPut(acc.interfaces, ie.k,
                                 [ie.v EXCEPT !.seq_no_tx = @ + 1]),
             calls |-> Append(acc.calls,
                          [interface_name |-> ie.k, proto |-> "v4",
                           dst |-> cf.mcast_v4,
                           msg |-> CreateRoutingMsg(cf, fib, ie.v.seq_no_tx, ie.k)])]
    IN FoldL(perIface, [interfaces |-> interfaces, calls |-> <<>>], interfaces)

\* tx_route_packet reading the first interface's counter for every
\* advertisement, after the counters of the interfaces before were raised
TxRoutePacketOneCounter(cf, interfaces, f) ==
    LET perIface(acc, ie) ==
            [interfaces |-> DPut(acc.interfaces, ie.k,
                                 [ie.v EXCEPT !.seq_no_tx = @ + 1]),
             calls |-> Append(acc.calls,
                          [interface_name |-> ie.k, proto |-> "v4",
                           dst |-> cf.mcast_v4,
                           msg |-> CreateRoutingMsg(cf, f,
                                       acc.interfaces[1].v.seq_no_tx, ie.k)])]
    IN FoldL(perIface, [interfaces |-> interfaces, calls |-> <<>>], interfaces)

\* tx_route_packet: [interfaces, calls]
TxRoutePacket(cf, interfaces, f) ==
    LET perIface(acc, ie) ==
            [interfaces |-> DPut(acc.interfaces, ie.k,
                                 [ie.v EXCEPT !.seq_no_tx = @ + 1]),
             calls |-> Append(acc.calls,
                          [interface_name |-> ie.k, proto |-> "v4",
                           dst |-> cf.mcast_v4,
                           msg |-> CreateRoutingMsg(cf, f, ie.v.seq_no_tx, ie.k)])]
    IN FoldL(perIface, [interfaces |-> interfaces, calls |-> <<>>], interfaces)

\* the rest of tick() once the outdated records are gone; rc is the result
\* of the recalculation, or the state as it is when none was required
TickRecalculated(rc) ==
    /\ routing_table' = rc.routing_table
    /\ rtu_calls' = rc.updates
    /\ fib' = rc.fib
    /\ raised' = rc.err
    /\ IF rc.err # "none"
       THEN /\ rtd' = [rtd EXCEPT !.interfaces = rc.interfaces]
            /\ tx_calls' = <<>>
            /\ hist' = [hist EXCEPT !.ticked = TRUE]
            /\ UNCHANGED <<next_tx_time, transmitted_now>>
       ELSE IF now >= next_tx_time
       THEN \E r \in 0..conf.jitter :
              /\ rtd' = [rtd EXCEPT !.interfaces =
                            TxRoutePacket(conf, rc.interfaces, rc.fib).interfaces]
              /\ tx_calls' = TxRoutePacket(conf, rc.interfaces, rc.fib).calls
              /\ next_tx_time' = CalcNextTxTime(conf, next_tx_time, now, r)
              /\ transmitted_now' = TRUE
              /\ hist' = [hist EXCEPT
                             !.ticked = TRUE,
                             !.last_tx = now,
                             !.first_tx = (hist.last_tx = None),
                             !.waited = now - (IF hist.last_tx = None
                                               THEN hist.start
                                               ELSE hist.last_tx)]
       ELSE /\ rtd' = [rtd EXCEPT !.interfaces = rc.interfaces]
            /\ tx_calls' = <<>>
            /\ transmitted_now' = FALSE
            /\ hist' = [hist EXCEPT !.ticked = TRUE]
            /\ UNCHANGED next_tx_time
    /\ UNCHANGED <<now, conf, cbs, started, cmp_in, cmp_out, net>>

TickAged(aged) ==
    TickRecalculated(IF aged.recalc
                     THEN Recalculate(conf, aged.interfaces)
                     ELSE [fib |-> fib, routing_table |-> routing_table,
                           interfaces |-> aged.interfaces, err |-> "none",
                           updates |-> <<>>])

\* tick() going on whenever the core has been started once
TickOnceStarted ==
    /\ op' = OpOf("tick")
    /\ IF ~rtd.exists THEN Returns("none")
       ELSE TickAged(CheckOutdatedRouteEntries(conf, rtd.interfaces, now))

Tick ==
    /\ op' = OpOf("tick")
    /\ IF ~started THEN Returns("none")
       ELSE TickAged(CheckOutdatedRouteEntries(conf, rtd.interfaces, now))

\* _recalculate_routing_table() called on its own, on a core that has been
\* started once (so the clock, the callbacks and the configuration are there)
RecalculateApplied(rc) ==
    /\ rtd' = [rtd EXCEPT !.interfaces = rc.interfaces]
    /\ fib' = rc.fib
    /\ routing_table' = rc.routing_table
    /\ rtu_calls' = rc.updates
    /\ raised' = rc.err
    /\ tx_calls' = <<>>
    /\ UNCHANGED <<now, conf, cbs, started, next_tx_time, transmitted_now, hist,
                   cmp_in, cmp_out, net>>

RecalculateRoutingTable ==
    /\ rtd.exists
    /\ op' = OpOf("recalculate")
    /\ RecalculateApplied(Recalculate(conf, rtd.interfaces))

-----------------------------------------------------------------------------
(* Reading the neighbour database *)

\* sender_id in self._rtd["interfaces"][iface]["rx-msg-db"]
HasRecord(r, iface, sender_id) ==
    /\ r.exists
    /\ DHas(r.interfaces, iface)
    /\ DHas(DGet(r.interfaces, iface).rx_msg_db, sender_id)

\* self._rtd["interfaces"][iface]["rx-msg-db"][sender_id]
RecordOf(r, iface, sender_id) == DGet(DGet(r.interfaces, iface).rx_msg_db, sender_id)

\* the (interface, sender) pairs that have a record
Records(r) ==
    UNION {{[iface |-> r.interfaces[i].k, id |-> id] :
               id \in DKeys(r.interfaces[i].v.rx_msg_db)} : i \in DOMAIN r.interfaces}

-----------------------------------------------------------------------------
(* msg_rx *)

IsValidInterface(cf, interface_name) == HasConfIface(cf.interfaces, interface_name)

\* _validate_rx_msg without the test of the sender's id
ValidateRxMsgAnySender(cf, msg, interface_name) ==
    IsValidInterface(cf, interface_name)

\* _validate_rx_msg
ValidateRxMsg(cf, msg, interface_name) ==
    IsValidInterface(cf, interface_name) /\ msg.id # cf.id

\* _rx_save_routing_data dropping only a smaller sequence number
RxSaveRoutingDataSameSeq(db, msg, t) ==
    LET record == [rx_time |-> t, msg |-> msg]
    IN IF ~DHas(db, msg.id)
       THEN [db |-> DPut(db, msg.id, record), stored |-> TRUE, recalc |-> TRUE]
       ELSE LET last_msg == DGet(db, msg.id).msg
            IN IF msg.seq_no < last_msg.seq_no
               THEN [db |-> db, stored |-> FALSE, recalc |-> FALSE]
               ELSE [db |-> DPut(db, msg.id, record), stored |-> TRUE,
                     recalc |-> ~CmpPackets(MsgToPy(last_msg), MsgToPy(msg))]

\* _rx_save_routing_data without the comparison of the sequence numbers
RxSaveRoutingDataAnySeq(db, msg, t) ==
    LET record == [rx_time |-> t, msg |-> msg]
    IN IF ~DHas(db, msg.id)
       THEN [db |-> DPut(db, msg.id, record), stored |-> TRUE, recalc |-> TRUE]
       ELSE LET last_msg == DGet(db, msg.id).msg
            IN [db |-> DPut(db, msg.id, record), stored |-> TRUE,
                recalc |-> ~CmpPackets(MsgToPy(last_msg), MsgToPy(msg))]

\* _rx_save_routing_data taking sequence number 0 for the sign of a restart
\* and storing it whatever the record holds
RxSaveRoutingDataFromZero(db, msg, t) ==
    LET record == [rx_time |-> t, msg |-> msg]
    IN IF ~DHas(db, msg.id)
       THEN [db |-> DPut(db, msg.id, record), stored |-> TRUE, recalc |-> TRUE]
       ELSE LET last_msg == DGet(db, msg.id).msg
            IN IF msg.seq_no <= last_msg.seq_no /\ msg.seq_no # 0
               THEN [db |-> db, stored |-> FALSE, recalc |-> FALSE]
               ELSE [db |-> DPut(db, msg.id, record), stored |-> TRUE,
                     recalc |-> ~CmpPackets(MsgToPy(last_msg), MsgToPy(msg))]

\* _rx_save_routing_data at time t: [db, stored, recalc]
RxSaveRoutingData(db, msg, t) ==
    LET record == [rx_time |-> t, msg |-> msg]
    IN IF ~DHas(db, msg.id)
       THEN [db |-> DPut(db, msg.id, record), stored |-> TRUE, recalc |-> TRUE]
       ELSE LET last_msg == DGet(db, msg.id).msg
            IN IF msg.seq_no <= last_msg.seq_no
               THEN [db |-> db, stored |-> FALSE, recalc |-> FALSE]
               ELSE [db |-> DPut(db, msg.id, record), stored |-> TRUE,
                     recalc |-> ~CmpPackets(MsgToPy(last_msg), MsgToPy(msg))]

\* msg_rx once the message is stored; rc as in tick()
MsgRxRecalculated(interface_name, msg, rc) ==
    /\ hist' = [hist EXCEPT !.stored =
                   {x \in @ : ~(x.iface = interface_name /\ x.id = msg.id)}
                   \cup {[iface |-> interface_name, id |-> msg.id, seq |-> msg.seq_no,
                          over |-> IF HasRecord(rtd, interface_name, msg.id)
                                   THEN RecordOf(rtd, interface_name, msg.id).msg.seq_no
                                   ELSE None]}]
    /\ tx_calls' = <<>>
    /\ rtd' = [rtd EXCEPT !.interfaces = rc.interfaces]
    /\ fib' = rc.fib
    /\ routing_table' = rc.routing_table
    /\ rtu_calls' = rc.updates
    /\ raised' = rc.err
    /\ UNCHANGED <<now, conf, cbs, started, next_tx_time, transmitted_now, cmp_in, cmp_out, net>>

MsgRxStored(interface_name, msg, recalc, interfaces1) ==
    MsgRxRecalculated(interface_name, msg,
                      IF recalc
                      THEN Recalculate(conf, interfaces1)
                      ELSE [fib |-> fib, routing_table |-> routing_table,
                            interfaces |-> interfaces1, err |-> "none",
                            updates |-> <<>>])

MsgRxSaved(interface_name, msg, saved) ==
    IF ~saved.stored THEN Returns("none")
    ELSE MsgRxStored(interface_name, msg, saved.recalc,
                     DPut(rtd.interfaces, interface_name,
                          [DGet(rtd.interfaces, interface_name)
                               EXCEPT !.rx_msg_db = saved.db]))

MsgRx(interface_name, msg) ==
    /\ op' = [name |-> "msg_rx", iface |-> interface_name, id |-> msg.id, seq |-> msg.seq_no]
    /\ IF ~conf.registered THEN Returns("TypeError")
       ELSE IF ~ValidateRxMsg(conf, msg, interface_name)
       THEN Returns(IF cbs.get_time THEN "none" ELSE "AttributeError")
       ELSE IF ~rtd.exists THEN Returns("AttributeError")
       ELSE IF ~DHas(rtd.interfaces, interface_name) THEN Returns("KeyError")
       ELSE MsgRxSaved(interface_name, msg,
                       RxSaveRoutingData(DGet(rtd.interfaces, interface_name).rx_msg_db,
                                         msg, now))

-----------------------------------------------------------------------------
(* next_hop_ip_addr called by the host *)

\* the call and what it returned are kept in the label; before the first
\* start() there is no self._rtd to look into
NextHopIpAddrCall(proto, router_id, iface_name) ==
    LET r == IF ~rtd.exists THEN [val |-> NoneAddr, err |-> "AttributeError"]
             ELSE NextHopIpAddr(rtd.interfaces, proto, router_id, iface_name)
    IN /\ op' = [name |-> "next_hop_ip_addr", iface |-> iface_name, id |-> router_id,
                 seq |-> None, proto |-> proto, returned |-> r.val]
       /\ Returns(r.err)

-----------------------------------------------------------------------------
(* The host: configurations, advertisements and the calls it makes *)

Interval == 2
Jitter == 1
HoldTime == 2
MaxTime == 4
MaxSeq == 1

LinkFast == [loss |-> 0, bandwidth |-> 100000, cost |-> 1]
LinkSlow == [loss |-> 0, bandwidth |-> 10000, cost |-> 0]
LinkLossy == [loss |-> 2, bandwidth |-> 50000, cost |-> 0]

ConfOf(id, interfaces) ==
    [registered |-> TRUE, id |-> id, interval |-> Interval, jitter |-> Jitter,
     hold |-> HoldTime, interfaces |-> interfaces,
     networks |-> <<[proto |-> "v4", prefix |-> "192.168.1.0", prefix_len |-> "24"]>>,
     mcast_v4 |-> "224.0.1.1", mcast_v6 |-> "ff05::2"]

\* node A with a fast and a slow link
ConfA ==
    ConfOf("A", <<[name |-> "w0", addr_v4 |-> "10.0.0.1", lc |-> LinkFast],
                  [name |-> "t0", addr_v4 |-> "10.0.1.1", lc |-> LinkSlow]>>)

\* node A with two links of equal characteristics
ConfTwin ==
    ConfOf("A", <<[name |-> "w0", addr_v4 |-> "10.0.0.1", lc |-> LinkFast],
                  [name |-> "w1", addr_v4 |-> "10.0.1.1", lc |-> LinkFast]>>)

\* a node whose id has more than one character
ConfLong ==
    ConfOf("n1", <<[name |-> "w0", addr_v4 |-> "10.0.0.1", lc |-> LinkSlow]>>)

NetOf(id) ==
    CASE id = "B" -> PrefixStr("192.168.2.0", "24")
      [] id = "C" -> PrefixStr("192.168.3.0", "24")
      [] id = "D" -> PrefixStr("192.168.4.0", "24")
      [] OTHER -> PrefixStr("192.168.1.0", "24")

AddrOf(id) ==
    CASE id = "B" -> "10.0.0.2"
      [] id = "C" -> "10.0.0.3"
      [] OTHER -> "10.0.0.9"

NoRoutingpaths ==
    [empty |-> TRUE, m |-> [mm \in MetricSet |-> <<>>],
     path_characteristics |-> <<>>, aliased |-> FALSE]

\* the routingpaths of a sender whose FIB holds one destination in every
\* metric, with the networks given, reached over the edges given (a sequence
\* of <<X, Y>>), all of characteristics lc
RoutingpathsTo(dest, next_hop, networks, edges, lc) ==
    LET entry(m) ==
            [next_hop |-> next_hop, networks |-> networks,
             weight |-> Len(edges) * LinkScalar(m, lc),
             paths |-> [i \in DOMAIN edges |->
                          [k |-> RouteKey(edges[i][1], edges[i][2]), v |-> "1"]]]
    IN [empty |-> FALSE,
        m |-> [mm \in MetricSet |-> <<[k |-> dest, v |-> entry(mm)]>>],
        path_characteristics |-> <<[k |-> "1", v |-> lc]>>,
        aliased |-> FALSE]

AdvertOf(id, seq_no, routingpaths) ==
    [id |-> id, seq_no |-> seq_no, addr_v4 |-> AddrOf(id),
     networks |-> <<NetOf(id)>>, routingpaths |-> routingpaths]

Seqs == 0..MaxSeq

\* what a neighbour without routes of its own sends
PlainAdverts(ids) == {AdvertOf(id, n, NoRoutingpaths) : id \in ids, n \in Seqs}

\* B relaying its neighbour C
RelayAdverts ==
    {AdvertOf("B", n, RoutingpathsTo("C", "C", <<NetOf("C")>>, <<<<"B", "C">>>>, LinkLossy)) : n \in Seqs}

\* B advertising a destination, without networks, over edges through the
\* receiving node itself
LoopAdverts ==
    {AdvertOf("B", 0, RoutingpathsTo("C", self, <<>>,
                                     <<<<"B", self>>, <<self, "C">>>>, LinkLossy)) :
        self \in {"A", "n1"}}

\* B advertising a route back to the receiving node
BackAdverts ==
    {AdvertOf("B", 0, RoutingpathsTo(self, self, <<NetOf(self)>>,
                                     <<<<"B", self>>>>, LinkLossy)) :
        self \in {"A", "n1"}}

\* B relaying its neighbour C, an entry without networks
TransitAdverts ==
    {AdvertOf("B", n, RoutingpathsTo("C", "C", <<>>, <<<<"B", "C">>>>, LinkLossy)) : n \in Seqs}

\* C relaying its neighbour B
CrossAdverts == {AdvertOf("C", 0, RoutingpathsTo("B", "B", <<NetOf("B")>>, <<<<"C", "B">>>>, LinkSlow))}

TopoAdverts ==
    {a \in PlainAdverts({"B", "C"}) \cup RelayAdverts : a.seq_no = 0}
        \cup LoopAdverts \cup BackAdverts \cup CrossAdverts

Callbacks == {"get_time", "packet_tx", "routing_table_update"}

\* the host sets the core up: the callbacks and one complete configuration,
\* registered once
Setup(confs) ==
    \/ \E name \in Callbacks : RegisterCb(name)
    \/ \E c \in confs :
          ~conf.registered /\ RegisterConfiguration(ConfigurationOf(c, "none", 0))

\* the host's loop: it starts the core and calls tick() once in every second
Pulse ==
    \/ (~started /\ Start)
    \/ (~hist.ticked /\ Tick)
    \/ (started /\ hist.ticked /\ AdvanceTime(MaxTime))

\* a node with two links and a neighbour B without routes of its own
Next ==
    \/ Setup({ConfA})
    \/ Pulse
    \/ \E i \in {"w0", "t0"}, m \in PlainAdverts({"B"}) : MsgRx(i, m)

Spec == Init /\ [][Next]_vars

\* the same node, its neighbour B relaying C
NextRelay ==
    \/ Setup({ConfA})
    \/ Pulse
    \/ \E i \in {"w0", "t0"}, m \in RelayAdverts : MsgRx(i, m)

SpecRelay == Init /\ [][NextRelay]_vars

\* the topologies: three nodes, neighbours B and C with and without routes,
\* at one instant
NextTopo ==
    \/ Setup({ConfA, ConfTwin, ConfLong})
    \/ (~started /\ Start)
    \/ \E i \in {"w0", "t0", "w1"}, m \in TopoAdverts : MsgRx(i, m)

SpecTopo == Init /\ [][NextTopo]_vars

\* the same node, B's advertisements with routes, and the recalculation
\* called on its own between the host's calls
NextRecalc ==
    \/ Setup({ConfA})
    \/ Pulse
    \/ \E i \in {"w0", "t0"}, m \in {a \in RelayAdverts \cup TransitAdverts : a.seq_no = 0} :
          MsgRx(i, m)
    \/ RecalculateRoutingTable

SpecRecalc == Init /\ [][NextRecalc]_vars

\* the same node at one instant, B's advertisements with and without routes
\* arriving again with the next sequence number
NextRefresh ==
    \/ Setup({ConfA})
    \/ (~started /\ Start)
    \/ \E i \in {"w0", "t0"}, m \in PlainAdverts({"B"}) \cup RelayAdverts \cup TransitAdverts :
          MsgRx(i, m)

SpecRefresh == Init /\ [][NextRefresh]_vars

MaxLifeTime == 2

\* every call the host can make, in any order, with messages that pass and
\* messages that fail validation
NextLife ==
    \/ Setup({ConfA})
    \/ Start
    \/ Stop
    \/ Restart
    \/ Tick
    \/ AdvanceTime(MaxLifeTime)
    \/ \E i \in {"w0", "x0"}, m \in PlainAdverts({"A", "B"}) : MsgRx(i, m)

SpecLife == Init /\ [][NextLife]_vars

\* the dicts the host may pass for the complete configuration full
Configurations(full) ==
    {ConfigurationOf(full, d, 0) :
        d \in {"none", "empty", "no_id", "id_not_str", "no_interfaces",
               "interfaces_not_list", "no_interface", "no_networks",
               "networks_not_list", "no_mcast_v4", "no_mcast_v6"}}
    \cup {ConfigurationOf(full, d, i) :
            d \in {"iface_no_name", "iface_no_addr", "iface_no_lc"},
            i \in DOMAIN full.interfaces}
    \cup {ConfigurationOf(full, d, i) :
            d \in {"net_no_proto", "net_no_prefix", "net_no_prefix_len"},
            i \in DOMAIN full.networks}

\* the calls that set the core up and start and stop it, in any order, with
\* configurations that pass and configurations that fail the checks
NextConf ==
    \/ \E name \in Callbacks : RegisterCb(name)
    \/ \E configuration \in Configurations(ConfA) : RegisterConfiguration(configuration)
    \/ Start
    \/ Stop
    \/ Restart

SpecConf == Init /\ [][NextConf]_vars

\* the same node started and stopped at any time, B's advertisement arriving
\* and the clock going on whether the core runs or not
NextStop ==
    \/ Setup({ConfA})
    \/ (~started /\ Start)
    \/ Stop
    \/ Tick
    \/ AdvanceTime(MaxTime)
    \/ \E m \in {a \in PlainAdverts({"B"}) : a.seq_no = 0} : MsgRx("w0", m)

SpecStop == Init /\ [][NextStop]_vars

\* the same node at one instant, B heard or not, and the host asking for
\* next-hop addresses
NextAddr ==
    \/ Setup({ConfA})
    \/ (~started /\ Start)
    \/ \E i \in {"w0", "t0"}, m \in {a \in PlainAdverts({"B"}) : a.seq_no = 0} : MsgRx(i, m)
    \/ \E proto \in {"v4", "v6", "v5"}, router_id \in {"B", "C"}, i \in {"w0", "t0", "x0"} :
          NextHopIpAddrCall(proto, router_id, i)

SpecAddr == Init /\ [][NextAddr]_vars

\* node A with three links, configured in one order and in the other
ConfTri ==
    ConfOf("A", <<[name |-> "w0", addr_v4 |-> "10.0.0.1", lc |-> LinkFast],
                  [name |-> "t0", addr_v4 |-> "10.0.1.1", lc |-> LinkSlow],
                  [name |-> "l0", addr_v4 |-> "10.0.2.1", lc |-> LinkLossy]>>)

ConfTriReversed ==
    ConfOf("A", <<[name |-> "l0", addr_v4 |-> "10.0.2.1", lc |-> LinkLossy],
                  [name |-> "t0", addr_v4 |-> "10.0.1.1", lc |-> LinkSlow],
                  [name |-> "w0", addr_v4 |-> "10.0.0.1", lc |-> LinkFast]>>)

\* a node at one instant hearing B, which has no routes of its own, on its
\* links in any order
NextPick ==
    \/ Setup({ConfA, ConfTri, ConfTriReversed})
    \/ (~started /\ Start)
    \/ \E i \in {"w0", "t0", "l0"}, m \in {a \in PlainAdverts({"B"}) : a.seq_no = 0} :
          MsgRx(i, m)

SpecPick == Init /\ [][NextPick]_vars

\* configurations that leave the hold time and the jitter to the defaults,
\* with a short and a long interval, or leave all three
TimerConfigurations ==
    {ConfigurationOf([ConfA EXCEPT !.interval = i], "no_hold_jitter", 0) :
        i \in {Interval, 4 * Interval}}
    \cup {ConfigurationOf(ConfA, "no_timers", 0)}

\* the host's loop on a core configured that way
NextTimers ==
    \/ \E name \in Callbacks : RegisterCb(name)
    \/ \E configuration \in TimerConfigurations :
          ~started /\ RegisterConfiguration(configuration)
    \/ Pulse

SpecTimers == Init /\ [][NextTimers]_vars

\* node A with a v6 network between two v4 networks
ConfDual ==
    [ConfA EXCEPT !.networks =
        <<[proto |-> "v4", prefix |-> "192.168.1.0", prefix_len |-> "24"],
          [proto |-> "v6", prefix |-> "fd00:1::", prefix_len |-> "64"],
          [proto |-> "v4", prefix |-> "172.16.1.0", prefix_len |-> "16"]>>]

\* that node ticking once per second while B's advertisements arrive
NextAdvert ==
    \/ Setup({ConfDual})
    \/ Pulse
    \/ \E i \in {"w0", "t0"}, m \in PlainAdverts({"B"}) : MsgRx(i, m)

SpecAdvert == Init /\ [][NextAdvert]_vars

\* the largest candidate weight of the relaxation steps called one by one
MaxWeight == 2

\* add_shortestloss_path (or one of its four copies, for metric m) called with
\* a candidate through other_id on the FIB as it is
AddPathCall(m, weight_update, other_id, dest_id, dest_data) ==
    /\ fib' = [fib EXCEPT ![m] = AddPath(fib[m], weight_update, other_id, dest_id, dest_data)]
    /\ op' = [name |-> "add_path", iface |-> "", id |-> other_id, seq |-> None,
              metric |-> m, weight_update |-> weight_update, dest_id |-> dest_id,
              dest_data |-> dest_data]
    /\ raised' = "none"
    /\ tx_calls' = <<>>
    /\ rtu_calls' = <<>>
    /\ UNCHANGED <<now, conf, cbs, started, rtd, routing_table, next_tx_time,
                   transmitted_now, hist, cmp_in, cmp_out, net>>

\* what a neighbour advertises for a destination: with or without networks,
\* over one edge of weight 0
CandidateData(other_id, dest_id) ==
    {[next_hop |-> dest_id, networks |-> nets, weight |-> 0,
      paths |-> <<[k |-> RouteKey(other_id, dest_id), v |-> "1"]>>] :
        nets \in {<<>>, <<NetOf(dest_id)>>}}

\* the relaxation of one metric, candidate after candidate in any order
NextRelax ==
    \E m \in MetricSet, other_id \in {"B", "C"}, dest_id \in {"C", "D"},
       weight_update \in 0..MaxWeight :
        \E dest_data \in CandidateData(other_id, dest_id) :
            /\ \A mm \in MetricSet \ {m} : fib[mm] = <<>>
            /\ AddPathCall(m, weight_update, other_id, dest_id, dest_data)

SpecRelax == Init /\ [][NextRelax]_vars

-----------------------------------------------------------------------------
(* Direct calls of _cmp_packets *)

MaxLeaf == 1

CmpKeys == {"sequence-no", "routingpaths"}

\* the dicts over CmpKeys, in every insertion order, with values from vals
DictsOver(vals) ==
    {PyDict(<<>>)}
        \cup {PyDict(<<[k |-> a, v |-> x]>>) : a \in CmpKeys, x \in vals}
        \cup {PyDict(<<[k |-> ab[1], v |-> x], [k |-> ab[2], v |-> y]>>) :
                 ab \in {kk \in CmpKeys \X CmpKeys : kk[1] # kk[2]},
                 x \in vals, y \in vals}

Leaves == {PyInt(n) : n \in 0..MaxLeaf}

\* packets: dicts whose values are integers or dicts of integers
Packets == DictsOver(Leaves \cup DictsOver(Leaves))

InitCmp ==
    /\ now = 0
    /\ conf = NoConf
    /\ cbs = [get_time |-> FALSE, packet_tx |-> FALSE, routing_table_update |-> FALSE]
    /\ started = FALSE
    /\ rtd = [exists |-> FALSE, interfaces |-> <<>>]
    /\ fib = EmptyFib
    /\ routing_table = NoRoutingTable
    /\ next_tx_time = None
    /\ transmitted_now = FALSE
    /\ op = OpOf("init")
    /\ raised = "none"
    /\ tx_calls = <<>>
    /\ rtu_calls = <<>>
    /\ hist = NoHist
    /\ cmp_in \in [p : Packets, q : Packets]
    /\ cmp_out = [done |-> FALSE, pp |-> FALSE, pq |-> FALSE, qp |-> FALSE]
    /\ net = <<>>

\* _cmp_packets(p, p), _cmp_packets(p, q) and _cmp_packets(q, p)
CmpCall ==
    /\ ~cmp_out.done
    /\ cmp_out' = [done |-> TRUE,
                   pp |-> CmpPackets(cmp_in.p, cmp_in.p),
                   pq |-> CmpPackets(cmp_in.p, cmp_in.q),
                   qp |-> CmpPackets(cmp_in.q, cmp_in.p)]
    /\ cmp_in' = CmpPacketsArgs(cmp_in.p, cmp_in.q)
    /\ UNCHANGED <<now, conf, cbs, started, rtd, fib, routing_table, next_tx_time,
                   transmitted_now, op, raised, tx_calls, rtu_calls, hist, net>>

NextCmp == CmpCall

SpecCmp == InitCmp /\ [][NextCmp]_vars

-----------------------------------------------------------------------------
(* A chain of three cores A - B - C, each on a host that calls tick() once *)
(* a second and hands every packet its core transmits to msg_rx of the    *)
(* core at the other end of the link                                      *)

\* the time by which every core has transmitted after hearing its neighbours:
\* the first transmissions are over at Jitter, the ones after them at most an
\* interval and a jitter after a first one
ChainSettled == Interval + 2 * Jitter

\* the chain is followed for one more round of transmissions
MaxChainTime == ChainSettled + Interval

ChainNodes == {"A", "B", "C"}

\* the hold time of the chain's cores, three intervals as in the default
\* configuration
ChainHold == 3 * Interval

ChainNetwork(id) ==
    [proto |-> "v4", prefix |-> NetOf(id)[1], prefix_len |-> NetOf(id)[3]]

ChainIfaces(id) ==
    CASE id = "A" -> <<[name |-> "w0", addr_v4 |-> "10.0.0.1", lc |-> LinkSlow]>>
      [] id = "B" -> <<[name |-> "w0", addr_v4 |-> AddrOf("B"), lc |-> LinkSlow],
                       [name |-> "t0", addr_v4 |-> AddrOf("B"), lc |-> LinkLossy]>>
      [] OTHER -> <<[name |-> "t0", addr_v4 |-> AddrOf("C"), lc |-> LinkLossy]>>

ChainConf(id) ==
    [ConfOf(id, ChainIfaces(id)) EXCEPT !.hold = ChainHold,
                                        !.networks = <<ChainNetwork(id)>>]

\* the core at the other end of the link of node n's interface
ChainPeer(n, interface_name) ==
    CASE n = "A" -> [node |-> "B", iface |-> "w0"]
      [] n = "C" -> [node |-> "B", iface |-> "t0"]
      [] n = "B" /\ interface_name = "w0" -> [node |-> "A", iface |-> "w0"]
      [] OTHER -> [node |-> "C", iface |-> "t0"]

\* a core after register_configuration, the callbacks and start(), first
\* transmission at time t; ticked: its host called tick() in this second
StartedNode(id, t) ==
    [conf |-> ChainConf(id),
     interfaces |-> InitRuntimeData(ChainConf(id)).interfaces,
     fib |-> EmptyFib,
     routing_table |-> NoRoutingTable,
     next_tx_time |-> t,
     ticked |-> FALSE,
     raised |-> "none"]

NodeRecalculated(node, rc) ==
    [node EXCEPT !.interfaces = rc.interfaces, !.fib = rc.fib,
                 !.routing_table = rc.routing_table, !.raised = rc.err]

NodeRxStored(node, recalc, interfaces1) ==
    IF recalc THEN NodeRecalculated(node, Recalculate(node.conf, interfaces1))
    ELSE [node EXCEPT !.interfaces = interfaces1, !.raised = "none"]

NodeRxSaved(node, interface_name, saved) ==
    IF ~saved.stored THEN [node EXCEPT !.raised = "none"]
    ELSE NodeRxStored(node, saved.recalc,
                      DPut(node.interfaces, interface_name,
                           [DGet(node.interfaces, interface_name)
                                EXCEPT !.rx_msg_db = saved.db]))

\* msg_rx of a started core at time t
NodeRx(node, interface_name, msg, t) ==
    IF ~ValidateRxMsg(node.conf, msg, interface_name)
    THEN [node EXCEPT !.raised = "none"]
    ELSE NodeRxSaved(node, interface_name,
                     RxSaveRoutingData(DGet(node.interfaces, interface_name).rx_msg_db,
                                       msg, t))

NodeTransmitted(node, tx, t, r) ==
    [node |-> [node EXCEPT !.interfaces = tx.interfaces,
                           !.next_tx_time = CalcNextTxTime(node.conf, @, t, r)],
     calls |-> tx.calls]

NodeTickRecalculated(node, t, r) ==
    IF node.raised # "none" THEN [node |-> node, calls |-> <<>>]
    ELSE IF t >= node.next_tx_time
    THEN NodeTransmitted(node, TxRoutePacket(node.conf, node.interfaces, node.fib), t, r)
    ELSE [node |-> node, calls |-> <<>>]

NodeTickAged(node, aged, t, r) ==
    NodeTickRecalculated(
        IF aged.recalc
        THEN NodeRecalculated(node, Recalculate(node.conf, aged.interfaces))
        ELSE [node EXCEPT !.interfaces = aged.interfaces, !.raised = "none"],
        t, r)

\* tick() of a started core at time t, r the jitter drawn for the next
\* transmission: [node, calls]
NodeTick(node, t, r) ==
    NodeTickAged(node, CheckOutdatedRouteEntries(node.conf, node.interfaces, t), t, r)

\* the packets of node n handed to the cores they are for
Delivered(network, n, calls, t) ==
    LET perCall(acc, call) ==
            [acc EXCEPT ![ChainPeer(n, call.interface_name).node] =
                NodeRx(@, ChainPeer(n, call.interface_name).iface, call.msg, t)]
    IN FoldL(perCall, network, calls)

ChainTicked(n, res) ==
    net' = Delivered([net EXCEPT ![n] = [res.node EXCEPT !.ticked = TRUE]],
                     n, res.calls, now)

InitChain ==
    /\ now = 0
    /\ conf = NoConf
    /\ cbs = [get_time |-> FALSE, packet_tx |-> FALSE, routing_table_update |-> FALSE]
    /\ started = FALSE
    /\ rtd = [exists |-> FALSE, interfaces |-> <<>>]
    /\ fib = EmptyFib
    /\ routing_table = NoRoutingTable
    /\ next_tx_time = None
    /\ transmitted_now = FALSE
    /\ op = OpOf("init")
    /\ raised = "none"
    /\ tx_calls = <<>>
    /\ rtu_calls = <<>>
    /\ hist = NoHist
    /\ cmp_in = [p |-> PyNone, q |-> PyNone]
    /\ cmp_out = [done |-> FALSE, pp |-> FALSE, pq |-> FALSE, qp |-> FALSE]
    /\ \E first \in [ChainNodes -> 0..Jitter] :
           net = [n \in ChainNodes |-> StartedNode(n, first[n])]

\* the host of node n calls tick() and delivers what it transmits
ChainTick(n) ==
    /\ ~net[n].ticked
    /\ \E r \in 0..net[n].conf.jitter : ChainTicked(n, NodeTick(net[n], now, r))
    /\ op' = [name |-> "tick", iface |-> "", id |-> n, seq |-> None]
    /\ UNCHANGED <<now, conf, cbs, started, rtd, fib, routing_table, next_tx_time,
                   transmitted_now, raised, tx_calls, rtu_calls, hist, cmp_in, cmp_out>>

\* a second passes once every host has called tick() in it
ChainTime ==
    /\ \A n \in ChainNodes : net[n].ticked
    /\ now < MaxChainTime
    /\ now' = now + 1
    /\ net' = [n \in ChainNodes |-> [net[n] EXCEPT !.ticked = FALSE]]
    /\ op' = OpOf("time")
    /\ UNCHANGED <<conf, cbs, started, rtd, fib, routing_table, next_tx_time,
                   transmitted_now, raised, tx_calls, rtu_calls, hist, cmp_in, cmp_out>>

NextChain == ChainTime \/ \E n \in ChainNodes : ChainTick(n)

\* every host keeps calling tick(), and time keeps passing. ChainTick(n) is
\* enabled exactly when node n has not ticked in the current second and
\* leaves it ticked, so that weak fairness of ChainTick(n) says that node n
\* has, again and again, ticked in the current second
SpecChain ==
    /\ InitChain
    /\ [][NextChain]_vars
    /\ WF_vars(ChainTime)
    /\ \A n \in ChainNodes : []<>(net[n].ticked)

-----------------------------------------------------------------------------
(* Two cores A and B on one link, B restarted once by its host *)

LinkNodes == {"A", "B"}

LinkConf(id) ==
    [ConfOf(id, <<[name |-> "w0", addr_v4 |-> AddrOf(id), lc |-> LinkSlow]>>)
        EXCEPT !.hold = ChainHold, !.networks = <<ChainNetwork(id)>>]

LinkNode(id, t) ==
    [conf |-> LinkConf(id),
     interfaces |-> InitRuntimeData(LinkConf(id)).interfaces,
     fib |-> EmptyFib,
     routing_table |-> NoRoutingTable,
     next_tx_time |-> t,
     ticked |-> FALSE,
     raised |-> "none"]

\* stop() and then start() of a started core at time t
NodeRestarted(node, t, r) ==
    [node EXCEPT !.interfaces = InitRuntimeData(node.conf).interfaces,
                 !.fib = EmptyFib,
                 !.routing_table = NoRoutingTable,
                 !.next_tx_time = CalcNextTxTime(node.conf, None, t, r),
                 !.raised = "none"]

\* the sequence number of the record A holds of B (None: no record)
HeldSeq(network) ==
    IF DHas(DGet(network["A"].interfaces, "w0").rx_msg_db, "B")
    THEN DGet(DGet(network["A"].interfaces, "w0").rx_msg_db, "B").msg.seq_no
    ELSE None

\* the time A received the record it holds of B (None: no record)
HeldSince(network) ==
    IF DHas(DGet(network["A"].interfaces, "w0").rx_msg_db, "B")
    THEN DGet(DGet(network["A"].interfaces, "w0").rx_msg_db, "B").rx_time
    ELSE None

\* by when a record of before the restart is gone and the next advertisement
\* of B has come
LinkRecovered == ChainHold + 1 + Interval + Jitter

MaxLinkTime == ChainSettled + LinkRecovered

InitLink ==
    /\ now = 0
    /\ conf = NoConf
    /\ cbs = [get_time |-> FALSE, packet_tx |-> FALSE, routing_table_update |-> FALSE]
    /\ started = FALSE
    /\ rtd = [exists |-> FALSE, interfaces |-> <<>>]
    /\ fib = EmptyFib
    /\ routing_table = NoRoutingTable
    /\ next_tx_time = None
    /\ transmitted_now = FALSE
    /\ op = OpOf("init")
    /\ raised = "none"
    /\ tx_calls = <<>>
    /\ rtu_calls = <<>>
    /\ hist = NoHist
    /\ cmp_in = [p |-> PyNone, q |-> PyNone]
    /\ cmp_out = [done |-> FALSE, pp |-> FALSE, pq |-> FALSE, qp |-> FALSE]
    /\ \E first \in [LinkNodes -> 0..Jitter] :
           net = [n \in LinkNodes |-> LinkNode(n, first[n])]

\* what A has stored of the advertisements B sent since its restart
\* (hist.start: the time of the restart)
LinkStored(n, network) ==
    IF n = "B" /\ hist.start # None /\ network["A"].interfaces # net["A"].interfaces
    THEN [hist EXCEPT !.stored = @ \cup {[iface |-> "w0", id |-> "B",
                                          seq |-> HeldSeq(network),
                                          over |-> HeldSeq(net)]}]
    ELSE hist

LinkTicked(n, res, network) ==
    /\ net' = network
    /\ hist' = LinkStored(n, network)
    /\ tx_calls' = res.calls

\* the host of node n calls tick() and hands what it transmits to the other
LinkTick(n) ==
    /\ ~net[n].ticked
    /\ \E r \in 0..net[n].conf.jitter :
           \E res \in {NodeTick(net[n], now, r)} :
               LinkTicked(n, res,
                          Delivered([net EXCEPT ![n] = [res.node EXCEPT !.ticked = TRUE]],
                                    n, res.calls, now))
    /\ op' = [name |-> "tick", iface |-> "", id |-> n, seq |-> None]
    /\ UNCHANGED <<now, conf, cbs, started, rtd, fib, routing_table, next_tx_time,
                   transmitted_now, raised, rtu_calls, cmp_in, cmp_out>>

\* the host of B calls stop() and start() while A holds a record of B with a
\* sequence number above 0
LinkRestart ==
    /\ hist.start = None
    /\ HeldSeq(net) >= 1
    /\ now <= ChainSettled
    /\ \E r \in 0..net["B"].conf.jitter :
           net' = [net EXCEPT !["B"] = NodeRestarted(@, now, r)]
    /\ hist' = [hist EXCEPT !.start = now]
    /\ op' = [name |-> "restart", iface |-> "", id |-> "B", seq |-> None]
    /\ tx_calls' = <<>>
    /\ UNCHANGED <<now, conf, cbs, started, rtd, fib, routing_table, next_tx_time,
                   transmitted_now, raised, rtu_calls, cmp_in, cmp_out>>

LinkTime ==
    /\ \A n \in LinkNodes : net[n].ticked
    /\ now < MaxLinkTime
    /\ now' = now + 1
    /\ net' = [n \in LinkNodes |-> [net[n] EXCEPT !.ticked = FALSE]]
    /\ op' = OpOf("time")
    /\ tx_calls' = <<>>
    /\ UNCHANGED <<conf, cbs, started, rtd, fib, routing_table, next_tx_time,
                   transmitted_now, raised, rtu_calls, hist, cmp_in, cmp_out>>

NextLink == LinkTime \/ LinkRestart \/ \E n \in LinkNodes : LinkTick(n)

\* both hosts keep calling tick() and time keeps passing, as in SpecChain
SpecLink ==
    /\ InitLink
    /\ [][NextLink]_vars
    /\ WF_vars(LinkTime)
    /\ \A n \in LinkNodes : []<>(net[n].ticked)

\* the FIBs of the chain's cores
ChainFibs == [n \in ChainNodes |-> net[n].fib]

\* A reaches C through B in the FIBs of the metrics without cost
ChainConverged ==
    \A m \in {"low_loss", "high_bandwidth", "bw_and_loss"} :
        /\ DHas(net["A"].fib[m], "C")
        /\ DGet(net["A"].fib[m], "C").next_hop = "B"

-----------------------------------------------------------------------------
(* Observations *)

\* the routing tables of a node without neighbours
EmptyTables ==
    [none |-> FALSE,
     tables |-> [i \in DOMAIN Metrics |-> [k |-> TableKey(Metrics[i]), v |-> <<>>]]]

-----------------------------------------------------------------------------
(* Properties *)

\* C1: in a started core, msg_rx from a sender that has a record on the
\* interface, with a sequence number not above the stored one, changes
\* nothing: the record (rx-time and message), the FIB and the routing table
\* stay as they are, and routing_table_update is not called
C1_StaleSeqDropped ==
    [][(/\ started
        /\ op'.name = "msg_rx"
        /\ HasRecord(rtd, op'.iface, op'.id)
        /\ op'.seq <= RecordOf(rtd, op'.iface, op'.id).msg.seq_no)
       => (/\ rtd' = rtd
           /\ fib' = fib
           /\ routing_table' = routing_table
           /\ rtu_calls' = <<>>
           /\ raised' = "none")]_vars

\* a message with a smaller sequence number was dropped: the record is older
\* than this second
C1_Witness ==
    /\ started
    /\ op.name = "msg_rx"
    /\ HasRecord(rtd, op.iface, op.id)
    /\ op.seq < RecordOf(rtd, op.iface, op.id).msg.seq_no
    /\ RecordOf(rtd, op.iface, op.id).rx_time < now

\* C2: msg_rx with a message that fails validation (the interface is not
\* configured, or the sender's id is the node's own) leaves the neighbour
\* database, the FIB and the routing table as they are and does not call
\* routing_table_update; and no record is ever kept under the node's own id
\* or on an interface that is not configured
C2_InvalidNoEffect ==
    /\ [][(/\ op'.name = "msg_rx"
           /\ (~IsValidInterface(conf, op'.iface) \/ op'.id = conf.id))
          => (/\ rtd' = rtd
              /\ fib' = fib
              /\ routing_table' = routing_table
              /\ rtu_calls' = <<>>)]_vars
    /\ [](\A x \in Records(rtd) : IsValidInterface(conf, x.iface) /\ x.id # conf.id)

\* a message from the node itself arrived on a configured interface of a
\* started core that has a neighbour
C2_Witness ==
    /\ started
    /\ op.name = "msg_rx"
    /\ op.id = conf.id
    /\ IsValidInterface(conf, op.iface)
    /\ Records(rtd) # {}

\* C3 as stated: the sequence number stored for an (interface, sender) pair
\* never decreases over the run, also when the record was evicted in between
C3_SeqNeverDecreases ==
    [][\A x \in hist.stored :
          HasRecord(rtd', x.iface, x.id)
              => RecordOf(rtd', x.iface, x.id).msg.seq_no >= x.seq]_vars

\* C3: for as long as the record of an (interface, sender) pair exists, its
\* stored sequence number does not decrease, under any interleaving of msg_rx
\* and tick
C3_SeqMonotoneWhilePresent ==
    [][\A x \in Records(rtd) :
          HasRecord(rtd', x.iface, x.id)
              => RecordOf(rtd', x.iface, x.id).msg.seq_no
                     >= RecordOf(rtd, x.iface, x.id).msg.seq_no]_vars

\* a message with a greater sequence number took the place of the stored one
C3_Witness ==
    /\ started
    /\ \E x \in hist.stored :
          /\ HasRecord(rtd, x.iface, x.id)
          /\ RecordOf(rtd, x.iface, x.id).msg.seq_no = x.seq
          /\ x.over # None
          /\ x.over < x.seq

\* C4: in a started core a tick deletes exactly the records with
\* now - rx-time > hold time and leaves the others as they are; a tick that
\* deleted a record has recalculated from the records left, and when none is
\* left routing_table_update got the empty tables
C4_EvictionAtHoldTime ==
    [][(started /\ op'.name = "tick")
       => /\ \A x \in Records(rtd) :
                IF now - RecordOf(rtd, x.iface, x.id).rx_time > conf.hold
                THEN ~HasRecord(rtd', x.iface, x.id)
                ELSE /\ HasRecord(rtd', x.iface, x.id)
                     /\ RecordOf(rtd', x.iface, x.id).rx_time
                            = RecordOf(rtd, x.iface, x.id).rx_time
          /\ Records(rtd') \subseteq Records(rtd)
          /\ (Records(rtd') # Records(rtd))
                => /\ fib' = Recalculate(conf, rtd'.interfaces).fib
                   /\ routing_table' = Recalculate(conf, rtd'.interfaces).routing_table
                   /\ rtu_calls' = Recalculate(conf, rtd'.interfaces).updates
                   /\ (Records(rtd') = {} => rtu_calls' = <<EmptyTables>>)]_vars

\* a tick deleted the last record, received hold time + 1 seconds before
C4_Witness ==
    /\ started
    /\ op.name = "tick"
    /\ hist.stored # {}
    /\ Records(rtd) = {}
    /\ rtu_calls = <<EmptyTables>>
    /\ now = conf.hold + 1

\* C8 as stated: one call of tick() calls packet_tx at most once
C8_OneTxPerTick == op.name = "tick" => Len(tx_calls) <= 1

\* C8: one call of tick() calls packet_tx at most once for each configured
\* interface
C8_OneTxPerInterface ==
    op.name = "tick"
        => /\ \A i, j \in DOMAIN tx_calls :
                 tx_calls[i].interface_name = tx_calls[j].interface_name => i = j
           /\ \A i \in DOMAIN tx_calls :
                 IsValidInterface(conf, tx_calls[i].interface_name)

\* a tick transmitted on both interfaces
C8_Witness ==
    /\ op.name = "tick"
    /\ Len(tx_calls) = 2
    /\ tx_calls[1].interface_name # tx_calls[2].interface_name

\* the ids an edge key "<X>><Y>" joins, as characters
EdgeFrom(key) == SubSeq(key, 1, (CHOOSE i \in DOMAIN key : key[i] = ">") - 1)
EdgeTo(key) == SubSeq(key, (CHOOSE i \in DOMAIN key : key[i] = ">") + 1, Len(key))

\* C5 as stated: after a recalculation no edge key in the paths of a FIB entry
\* has the node's own id at either end, except the edge from the node to the
\* entry's next hop; for ids of any length
C5_NoSelfInPaths ==
    (conf.registered /\ raised = "none") =>
        \A m \in MetricSet : \A i \in DOMAIN fib[m] :
            \A j \in DOMAIN fib[m][i].v.paths :
                LET key == fib[m][i].v.paths[j].k
                IN (EdgeFrom(key) = IdChars[conf.id] \/ EdgeTo(key) = IdChars[conf.id])
                       => key = RouteKey(conf.id, fib[m][i].v.next_hop)

\* C6: after a recalculation no metric's FIB has the node's own id as a
\* destination, whatever the neighbours advertise
C6_NoSelfDestination ==
    conf.registered => \A m \in MetricSet : ~DHas(fib[m], conf.id)

\* node n1 has recalculated with B's advertisement of a route back to n1
C6_Witness ==
    /\ started
    /\ conf.id = "n1"
    /\ raised = "none"
    /\ rtu_calls # <<>>
    /\ \E x \in Records(rtd) :
          LET rp == RecordOf(rtd, x.iface, x.id).msg.routingpaths
          IN ~rp.empty /\ DHas(rp.m["low_loss"], "n1")
    /\ DHas(fib["low_loss"], "B")

\* C7 as stated: every row handed to routing_table_update has an interface on
\* which a neighbour has a record whose originator address is the row's next
\* hop, so the next hop is defined
C7_RowsResolve ==
    \A c \in DOMAIN rtu_calls : \A t \in DOMAIN rtu_calls[c].tables :
        \A r \in DOMAIN rtu_calls[c].tables[t].v :
            LET row == rtu_calls[c].tables[t].v[r]
            IN /\ row.next_hop # NoneAddr
               /\ \E x \in Records(rtd) :
                     /\ x.iface = row.interface
                     /\ RecordOf(rtd, x.iface, x.id).msg.addr_v4 = row.next_hop

\* C9 as stated: with tick() once per second the first transmission comes
\* within the jitter after start(), and each later one comes between interval
\* and interval + jitter seconds after the one before
C9_TxTiming ==
    hist.last_tx # None =>
        IF hist.first_tx
        THEN hist.waited \in 0..conf.jitter
        ELSE hist.waited \in conf.interval..(conf.interval + conf.jitter)

\* C10: _cmp_packets(p, p) is true and _cmp_packets(p, q) = _cmp_packets(q, p),
\* for dicts whose key sets differ at any level
C10_CmpReflexiveSymmetric ==
    cmp_out.done => (cmp_out.pp /\ (cmp_out.pq = cmp_out.qp))

\* two packets compared whose routingpaths are dicts of different keys
C10_Witness ==
    /\ cmp_out.done
    /\ DHas(cmp_in.p.d, "routingpaths")
    /\ DHas(cmp_in.q.d, "routingpaths")
    /\ DGet(cmp_in.p.d, "routingpaths").t = "dict"
    /\ DGet(cmp_in.q.d, "routingpaths").t = "dict"
    /\ DKeys(DGet(cmp_in.p.d, "routingpaths").d) # DKeys(DGet(cmp_in.q.d, "routingpaths").d)
    /\ DKeys(DGet(cmp_in.p.d, "routingpaths").d)
           \subseteq DKeys(DGet(cmp_in.q.d, "routingpaths").d)
    /\ ~cmp_out.pq

\* a packet without its 'sequence-no'
NotSequenceNo(e) == e.k # "sequence-no"
WithoutSequenceNo(packet) == PyDict(SelectSeq(packet.d, NotSequenceNo))

\* C11: _cmp_packets(p, q) is true exactly when p and q are equal apart from
\* 'sequence-no' (same keys at every level, same values), and the call leaves
\* both arguments as they were
C11_CmpIsMaskedEquality ==
    /\ [](cmp_out.done =>
             (cmp_out.pq <=> PyEq(WithoutSequenceNo(cmp_in.p), WithoutSequenceNo(cmp_in.q))))
    /\ [][cmp_in' = cmp_in]_vars

\* two packets with routingpaths that differ in 'sequence-no' only compared
\* equal
C11_Witness ==
    /\ cmp_out.done
    /\ cmp_out.pq
    /\ DHas(cmp_in.p.d, "sequence-no")
    /\ DHas(cmp_in.q.d, "sequence-no")
    /\ DGet(cmp_in.p.d, "sequence-no") # DGet(cmp_in.q.d, "sequence-no")
    /\ DHas(cmp_in.p.d, "routingpaths")
    /\ DGet(cmp_in.p.d, "routingpaths").t = "dict"
    /\ DGet(cmp_in.p.d, "routingpaths").d # <<>>

\* C12: a recalculation that follows a recalculation, with no msg_rx and no
\* eviction in between, leaves the same FIB (five metrics and
\* path_characteristics) and the same routing table and hands the same tables
\* to routing_table_update; and nothing of an earlier FIB is left when the
\* neighbour database is empty
C12_RecalculationIsAFunction ==
    /\ [][(op'.name = "recalculate" /\ (op.name = "recalculate" \/ rtu_calls # <<>>))
           => (/\ fib' = fib
               /\ routing_table' = routing_table
               /\ rtd' = rtd
               /\ (raised = "none" => rtu_calls' = <<routing_table>>))]_vars
    /\ []((op.name \in {"recalculate", "tick"} /\ rtu_calls # <<>> /\ Records(rtd) = {})
             => (fib = EmptyFib /\ rtu_calls = <<EmptyTables>>))

\* the recalculation was called on its own after B's routes had been
\* taken into the FIB, and again
C12_Witness ==
    /\ op.name = "recalculate"
    /\ raised = "none"
    /\ DHas(fib["low_loss"], "C")
    /\ DGet(fib["low_loss"], "C").next_hop = "B"
    /\ \E x \in Records(rtd) : RecordOf(rtd, x.iface, x.id).msg.routingpaths.aliased

\* an advertisement as it was received, whatever its sequence number
Received(msg) == [msg EXCEPT !.seq_no = 0, !.routingpaths.aliased = FALSE]

\* C13 as stated: in a started core, msg_rx of an advertisement with a higher
\* sequence number than the stored one of its sender on the interface
\* refreshes the stored message and the rx-time, and when its content is that
\* of the stored advertisement as it was received there is no recalculation:
\* FIB and routing table stay and routing_table_update is not called
C13_SameContentNoRecalc ==
    [][(/\ started
        /\ op'.name = "msg_rx"
        /\ HasRecord(rtd, op'.iface, op'.id)
        /\ op'.seq > RecordOf(rtd, op'.iface, op'.id).msg.seq_no)
       => /\ HasRecord(rtd', op'.iface, op'.id)
          /\ RecordOf(rtd', op'.iface, op'.id).msg.seq_no = op'.seq
          /\ RecordOf(rtd', op'.iface, op'.id).rx_time = now
          /\ (Received(RecordOf(rtd', op'.iface, op'.id).msg)
                  = Received(RecordOf(rtd, op'.iface, op'.id).msg))
                => (/\ fib' = fib
                    /\ routing_table' = routing_table
                    /\ rtu_calls' = <<>>)]_vars

\* C14 as stated: in a started core, msg_rx that stores the message of a new
\* sender, or a message with a higher sequence number and another content
\* than the stored one, calls routing_table_update exactly once before it
\* returns, with the table of the updated neighbour database; and a tick whose
\* recalculation completed has called it exactly once
C14_RecalcThenInstall ==
    [][/\ (/\ started
            /\ op'.name = "msg_rx"
            /\ IsValidInterface(conf, op'.iface)
            /\ op'.id # conf.id
            /\ HasRecord(rtd', op'.iface, op'.id)
            /\ \/ ~HasRecord(rtd, op'.iface, op'.id)
               \/ /\ op'.seq > RecordOf(rtd, op'.iface, op'.id).msg.seq_no
                  /\ Received(RecordOf(rtd', op'.iface, op'.id).msg)
                         # Received(RecordOf(rtd, op'.iface, op'.id).msg))
          => (/\ Len(rtu_calls') = 1
              /\ rtu_calls'[1] = routing_table'
              /\ rtu_calls'[1] = Recalculate(conf, rtd'.interfaces).routing_table)
       /\ (/\ started
            /\ op'.name = "tick"
            /\ Records(rtd') # Records(rtd)
            /\ raised' = "none")
          => (Len(rtu_calls') = 1 /\ rtu_calls'[1] = routing_table')]_vars

\* the routingpaths an advertisement built from FIB f carries
RoutingpathsOf(f) ==
    IF \A m \in MetricSet : f[m] = <<>>
    THEN NoRoutingpaths
    ELSE [empty |-> FALSE, m |-> [mm \in MetricSet |-> f[mm]],
          path_characteristics |-> f.path_characteristics, aliased |-> FALSE]

\* C15: a tick that evicted a record and transmitted has recalculated and
\* called routing_table_update with the new table, and every advertisement it
\* sent carries the FIB computed after the eviction, in which every next hop
\* is a neighbour that still has a record
C15_AgingBeforeTransmission ==
    [][(/\ started
        /\ op'.name = "tick"
        /\ Records(rtd') # Records(rtd)
        /\ tx_calls' # <<>>)
       => /\ rtu_calls' = <<routing_table'>>
          /\ fib' = Recalculate(conf, rtd'.interfaces).fib
          /\ \A i \in DOMAIN tx_calls' :
                /\ tx_calls'[i].msg.routingpaths = RoutingpathsOf(fib')
                /\ \A m \in MetricSet :
                      \A j \in DOMAIN tx_calls'[i].msg.routingpaths.m[m] :
                         \E x \in Records(rtd') :
                            x.id = tx_calls'[i].msg.routingpaths.m[m][j].v.next_hop]_vars

\* a tick evicted B's record on one interface, kept the one on the other and
\* transmitted the FIB that has B still
C15_Witness ==
    /\ started
    /\ op.name = "tick"
    /\ rtu_calls # <<>>
    /\ Len(tx_calls) = 2
    /\ Cardinality(Records(rtd)) = 1
    /\ ~tx_calls[1].msg.routingpaths.empty
    /\ DHas(tx_calls[1].msg.routingpaths.m["low_loss"], "B")

\* C16 as stated: in a started core neither msg_rx nor tick raises
C16_NeverRaises ==
    (started /\ op.name \in {"msg_rx", "tick"}) => raised = "none"

-----------------------------------------------------------------------------
(* Configuration intake *)

\* the ways a configuration can be wrong that make register_configuration
\* raise a configuration error; the empty dict lacks every key
RejectedDefects ==
    {"empty", "no_id", "id_not_str", "no_interfaces", "no_interface",
     "iface_no_name", "iface_no_addr", "net_no_proto", "net_no_prefix",
     "net_no_prefix_len", "no_mcast_v4", "no_mcast_v6"}

\* a configuration with none of them: complete, or without networks, or with
\* an interface without link-characteristics
AcceptedDefects == {"none", "no_networks", "iface_no_lc"}

\* C17: register_configuration raises a configuration error when the
\* configuration lacks id or id is not a string, lacks interfaces or has an
\* empty interface list, has an interface entry without name or addr-v4, a
\* network entry without proto, prefix or prefix-len, or lacks one of the
\* multicast addresses, and it accepts a configuration with none of these
\* defects without error.
C17_DefectsRaise ==
    [][op'.name = "register_configuration"
       => /\ op'.configuration.defect \in RejectedDefects
               => raised' = "ConfigurationException"
          /\ op'.configuration.defect \in AcceptedDefects
               => raised' = "none"]_vars

\* a configuration is stored that a call of register_configuration accepted:
\* process_conf assigns the v6 multicast address last
Accepted(cf) == cf.registered /\ "mcast_v6" \in DOMAIN cf

\* C18: when register_configuration raises a configuration error the stored
\* configuration is what it was before the call, and start() on a core that
\* holds no accepted configuration fails the assertion on the configuration
\* (the callbacks being registered).
C18_FailedRegistrationKeepsConf ==
    [][/\ (op'.name = "register_configuration" /\ raised' = "ConfigurationException")
            => conf' = conf
       /\ (/\ op'.name = "start"
           /\ ~Accepted(conf)
           /\ cbs.get_time /\ cbs.packet_tx /\ cbs.routing_table_update)
            => raised' = "AssertionError" /\ ~started' /\ rtd' = rtd]_vars

-----------------------------------------------------------------------------
(* Starting and stopping *)

\* everything start() needs has been registered
AllRegistered ==
    cbs.get_time /\ cbs.packet_tx /\ cbs.routing_table_update /\ Accepted(conf)

\* C19: start() fails, the core staying not started and its runtime state
\* as it was, unless the time, transmit and installer callbacks and a
\* configuration have all been registered; with all four registered, on a
\* core that was never started, it succeeds and sets started.
C19_StartPreconditions ==
    [][op'.name = "start"
       => /\ (~AllRegistered /\ ~started)
               => /\ raised' # "none"
                  /\ ~started'
                  /\ rtd' = rtd /\ fib' = fib /\ routing_table' = routing_table
                  /\ next_tx_time' = next_tx_time
          /\ (AllRegistered /\ ~rtd.exists)
               => raised' = "none" /\ started']_vars

\* C20: stop() leaves the core not started with the routing table cleared,
\* only start() makes it started again, and a tick() of a core that is not
\* started evicts no record, calls neither callback and changes nothing.
C20_StoppedTickDoesNothing ==
    [][/\ op'.name = "stop" => ~started' /\ routing_table'.none
       /\ (~started /\ started') => op'.name \in {"start", "restart"}
       /\ (~started /\ op'.name = "tick")
            => /\ raised' = "none"
               /\ tx_calls' = <<>>
               /\ rtu_calls' = <<>>
               /\ UNCHANGED <<now, conf, cbs, started, rtd, fib, routing_table,
                              next_tx_time, transmitted_now>>]_vars

\* a stopped core ticked while it holds a record older than the hold time
C20_Witness ==
    /\ op.name = "tick"
    /\ ~started
    /\ rtd.exists
    /\ routing_table.none
    /\ \E x \in Records(rtd) : now - RecordOf(rtd, x.iface, x.id).rx_time > conf.hold

\* the runtime data of a core just started: on every configured interface no
\* record and the sequence number 0
FreshRuntimeData(cf) ==
    [exists |-> TRUE,
     interfaces |-> [i \in DOMAIN cf.interfaces |->
                       [k |-> cf.interfaces[i].name,
                        v |-> [seq_no_tx |-> 0, rx_msg_db |-> <<>>]]]]

\* C21: with the callbacks and a configuration registered, restart(), and
\* start() called right after stop(), succeed from any state, and leave the
\* core started with no record and sequence number 0 on every interface, the
\* five FIBs empty and the next transmission within the jitter from now.
C21_RestartReinitialises ==
    [][(/\ AllRegistered
        /\ \/ op'.name = "restart"
           \/ op.name = "stop" /\ op'.name = "start")
       => /\ raised' = "none"
          /\ started'
          /\ rtd' = FreshRuntimeData(conf)
          /\ fib' = EmptyFib
          /\ next_tx_time' \in now..(now + conf.jitter)]_vars

\* restarted after a transmission, so after the sequence numbers had moved
C21_Witness ==
    /\ op.name = "restart"
    /\ raised = "none"
    /\ started
    /\ transmitted_now
    /\ rtd = FreshRuntimeData(conf)

-----------------------------------------------------------------------------
(* Next-hop addresses *)

\* C22: on a started core next_hop_ip_addr raises an internal error for an
\* interface that is not configured and for a proto other than "v4" and
\* "v6", whoever is asked for; otherwise it returns nothing when the id has
\* no record on the interface and the originator address of the stored
\* advertisement when it has; it changes no state.
C22_NextHopIpAddr ==
    [][(started /\ op'.name = "next_hop_ip_addr")
       => /\ UNCHANGED <<now, conf, cbs, started, rtd, fib, routing_table,
                         next_tx_time, transmitted_now>>
          /\ tx_calls' = <<>> /\ rtu_calls' = <<>>
          /\ IF ~IsValidInterface(conf, op'.iface) \/ op'.proto \notin {"v4", "v6"}
             THEN raised' = "InternalException"
             ELSE /\ raised' = "none"
                  /\ op'.returned
                        = IF HasRecord(rtd, op'.iface, op'.id)
                          THEN RecordOf(rtd, op'.iface, op'.id).msg.addr_v4
                          ELSE NoneAddr]_vars

-----------------------------------------------------------------------------
(* The cost filter *)

\* the interfaces a neighbour has a record on, and whether one of them is free
\* of cost
HeardOn(n) == {x.iface : x \in {y \in Records(rtd) : y.id = n}}

CostFree(n) == \E i \in HeardOn(n) : ConfIface(conf.interfaces, i).lc.cost = 0

\* the originator addresses of a neighbour's stored advertisements
AddrsOf(n) == {RecordOf(rtd, i, n).msg.addr_v4 : i \in HeardOn(n)}

\* a recalculation has just run, to its end or to an exception
RecalculationRan ==
    /\ started
    /\ op.name \in {"msg_rx", "tick", "recalculate"}
    /\ (rtu_calls # <<>> \/ raised = "KeyError")

\* C23: after a recalculation the no_cost and bw_and_cost FIBs hold a direct
\* neighbour only if it has a record on an interface of cost 0 and a
\* destination reached through a neighbour only if that neighbour is in the
\* FIB too; a neighbour heard only on interfaces with a cost has no row in
\* the no-cost and filtered-bw-cost tables handed to the installer and has
\* rows in the other three.
C23_CostFilter ==
    RecalculationRan
    => /\ \A m \in {"no_cost", "bw_and_cost"} : \A d \in DKeys(fib[m]) :
             /\ HeardOn(d) # {} => CostFree(d)
             /\ DGet(fib[m], d).next_hop # d => DHas(fib[m], DGet(fib[m], d).next_hop)
       /\ \A n \in {x.id : x \in Records(rtd)} :
             ~CostFree(n)
             => /\ Len(rtu_calls) = 1
                /\ \A t \in DOMAIN rtu_calls[1].tables :
                      LET table == rtu_calls[1].tables[t]
                          rows == {r \in DOMAIN table.v : table.v[r].next_hop \in AddrsOf(n)}
                      IN IF table.k \in {"no-cost", "filtered-bw-cost"}
                         THEN rows = {}
                         ELSE rows # {}

-----------------------------------------------------------------------------
(* Phase A *)

\* the quantity a metric looks at on a link, and whether it wants it large
Quantity(m, lc) ==
    CASE m = "low_loss" -> lc.loss
      [] m = "high_bandwidth" -> lc.bandwidth
      [] m = "bw_and_loss" -> K1 * (10000000 \div lc.bandwidth) + K2 * lc.loss
      [] m = "no_cost" -> lc.cost
      [] m = "bw_and_cost" -> lc.bandwidth

\* the interfaces a metric may pick for neighbour n
Candidates(m, n) ==
    IF m \in {"no_cost", "bw_and_cost"}
    THEN {i \in HeardOn(n) : ConfIface(conf.interfaces, i).lc.cost = 0}
    ELSE HeardOn(n)

\* interface i is as good for the metric as any candidate
Optimal(m, n, i) ==
    \A j \in Candidates(m, n) :
        LET qi == Quantity(m, ConfIface(conf.interfaces, i).lc)
            qj == Quantity(m, ConfIface(conf.interfaces, j).lc)
        IN IF m \in {"high_bandwidth", "bw_and_cost"} THEN qi >= qj ELSE qi <= qj

\* C24: after a recalculation with neighbours that advertise no routes, every
\* neighbour's entry in every metric goes over one of the interfaces it has a
\* record on that is optimal for the metric (least loss, most bandwidth,
\* least compound score, cost 0, most bandwidth among cost 0), with that
\* interface's weight and characteristics, and a neighbour with no record on
\* a cost-0 interface has no entry in the two cost metrics.
C24_PhaseAPicksBest ==
    (RecalculationRan /\ raised = "none")
    => \A n \in {x.id : x \in Records(rtd)} : \A m \in MetricSet :
          IF Candidates(m, n) = {} THEN ~DHas(fib[m], n)
          ELSE /\ DHas(fib[m], n)
               /\ DGet(fib[m], n).next_hop = n
               /\ DKeys(DGet(fib[m], n).paths) = {RouteKey(conf.id, n)}
               /\ \E i \in Candidates(m, n) :
                     LET lc == ConfIface(conf.interfaces, i).lc
                     IN /\ Optimal(m, n, i)
                        /\ DGet(fib[m], n).weight = Quantity(m, lc)
                        /\ DGet(fib.path_characteristics,
                                DGet(DGet(fib[m], n).paths, RouteKey(conf.id, n))) = lc

\* B heard on all three links, the best one for bandwidth configured last
C24_Witness ==
    /\ RecalculationRan
    /\ raised = "none"
    /\ conf = ConfTriReversed
    /\ HeardOn("B") = {"w0", "t0", "l0"}
    /\ DGet(fib["high_bandwidth"], "B").weight = LinkFast.bandwidth
    /\ DGet(fib["bw_and_cost"], "B").weight = LinkLossy.bandwidth

-----------------------------------------------------------------------------
(* Phase B *)

\* the destinations neighbour n advertises under metric m in the
\* advertisement stored on interface i
Advertised(i, n, m) == RecordOf(rtd, i, n).msg.routingpaths.m[m]

\* destination d comes to this node from neighbour n alone: it is not this
\* node, not a neighbour, and no other neighbour advertises it
OnlyThrough(d, n, m) ==
    /\ d # conf.id
    /\ HeardOn(d) = {}
    /\ \A x \in Records(rtd) : x.id # n => ~DHas(Advertised(x.iface, x.id, m), d)

\* this node is at neither end of an edge key
NotInvolved(key) ==
    \A other \in DOMAIN IdChars :
        key # RouteKey(conf.id, other) /\ key # RouteKey(other, conf.id)

\* C25: after a recalculation, a destination that neighbour B advertises under
\* a metric in which B has a Phase-A entry, that is reached through B alone
\* and over edges not involving this node, has an entry in that metric's FIB
\* with next-hop B, the edge to B and every advertised edge among its paths,
\* and the weight of B's entry plus the advertised weight.
C25_RelayedDestination ==
    RecalculationRan
    => \A x \in Records(rtd) : \A m \in MetricSet :
          \A j \in DOMAIN Advertised(x.iface, x.id, m) :
             LET d == Advertised(x.iface, x.id, m)[j].k
                 adv == Advertised(x.iface, x.id, m)[j].v
             IN (/\ Candidates(m, x.id) # {}
                 /\ OnlyThrough(d, x.id, m)
                 /\ \A e \in DKeys(adv.paths) : NotInvolved(e))
                => /\ DHas(fib[m], d)
                   /\ DGet(fib[m], d).next_hop = x.id
                   /\ DKeys(adv.paths) \cup {RouteKey(conf.id, x.id)}
                          \subseteq DKeys(DGet(fib[m], d).paths)
                   /\ \E i \in Candidates(m, x.id) :
                         /\ Optimal(m, x.id, i)
                         /\ DGet(fib[m], d).weight
                               = Quantity(m, ConfIface(conf.interfaces, i).lc) + adv.weight

-----------------------------------------------------------------------------
(* Timer defaults *)

\* C26: a configuration that gives the interval I and leaves out the hold
\* time and the jitter is stored with hold time 3 * I and jitter I / 4; one
\* that leaves out the interval too is stored with 30, 7 and 90; and start()
\* on a core so configured schedules the first transmission within I / 4
\* seconds from now.
C26_TimerDefaults ==
    [][/\ (op'.name = "register_configuration" /\ raised' = "none")
            => /\ op'.configuration.defect = "no_hold_jitter"
                    => /\ conf'.interval = op'.configuration.full.interval
                       /\ conf'.hold = 3 * op'.configuration.full.interval
                       /\ conf'.jitter = op'.configuration.full.interval \div 4
               /\ op'.configuration.defect = "no_timers"
                    => conf'.interval = 30 /\ conf'.jitter = 7 /\ conf'.hold = 90
       /\ (op'.name = "start" /\ raised' = "none")
            => next_tx_time' \in now..(now + conf.interval \div 4)]_vars

-----------------------------------------------------------------------------
(* Transmit sequence numbers *)

\* the adverts of one call that were built for the interface
BuiltFor(calls, name) == {c \in DOMAIN calls : calls[c].interface_name = name}

\* C27: start() sets every interface's counter to 0; from then on an
\* advertisement built for an interface carries the interface's counter as it
\* was before the call, the call builds at most one for each interface and
\* raises the counter by one for each it builds, and no other operation
\* (msg_rx, recalculation, eviction, stop) changes a counter: so the
\* sequence numbers sent on an interface are 0, 1, 2, ... in order.
C27_SequenceNumbers ==
    [][/\ (op'.name \in {"start", "restart"} /\ raised' = "none")
            => \A i \in DOMAIN rtd'.interfaces : rtd'.interfaces[i].v.seq_no_tx = 0
       /\ (rtd.exists /\ op'.name \notin {"start", "restart"})
            => /\ rtd'.exists
               /\ DKeys(rtd'.interfaces) = DKeys(rtd.interfaces)
               /\ \A i \in DOMAIN rtd.interfaces :
                     LET name == rtd.interfaces[i].k
                         counter == rtd.interfaces[i].v.seq_no_tx
                         built == BuiltFor(tx_calls', name)
                     IN /\ Cardinality(built) <= 1
                        /\ \A c \in built : tx_calls'[c].msg.seq_no = counter
                        /\ DGet(rtd'.interfaces, name).seq_no_tx
                              = counter + Cardinality(built)]_vars

\* the third advertisement on an interface, sent after B's record had been
\* stored and evicted
C27_Witness ==
    /\ op.name = "tick"
    /\ hist.stored # {}
    /\ Records(rtd) = {}
    /\ \E c \in DOMAIN tx_calls : tx_calls[c].msg.seq_no = 2
    /\ \A i \in DOMAIN rtd.interfaces : rtd.interfaces[i].v.seq_no_tx = 3

-----------------------------------------------------------------------------
(* Advertisement content *)

\* C28: every advertisement handed to packet_tx carries the node's id, the
\* configured v4 address of the interface it goes out on, the configured v4
\* networks and no other as "prefix/len", and as routingpaths the FIB as it
\* is when any of the five metric FIBs has an entry and nothing otherwise; an
\* advertisement sent while no neighbour has a record has empty routingpaths.
C28_AdvertContent ==
    \A i \in DOMAIN tx_calls :
        LET msg == tx_calls[i].msg
            v4 == {j \in DOMAIN conf.networks : conf.networks[j].proto = "v4"}
        IN /\ msg.id = conf.id
           /\ \E j \in DOMAIN conf.interfaces :
                 /\ conf.interfaces[j].name = tx_calls[i].interface_name
                 /\ conf.interfaces[j].addr_v4 = msg.addr_v4
           /\ Len(msg.networks) = Cardinality(v4)
           /\ {msg.networks[n] : n \in DOMAIN msg.networks}
                 = {<<conf.networks[j].prefix, "/", conf.networks[j].prefix_len>> : j \in v4}
           /\ IF \E m \in MetricSet : fib[m] # <<>>
              THEN /\ ~msg.routingpaths.empty
                   /\ \A m \in MetricSet : msg.routingpaths.m[m] = fib[m]
                   /\ msg.routingpaths.path_characteristics = fib.path_characteristics
              ELSE msg.routingpaths = NoRoutingpaths
           /\ Records(rtd) = {} => msg.routingpaths.empty

\* advertisements sent while B has a record: two networks out of three, and
\* B in the routingpaths
C28_Witness ==
    /\ op.name = "tick"
    /\ Len(conf.networks) = 3
    /\ Len(tx_calls) = 2
    /\ Len(tx_calls[1].msg.networks) = 2
    /\ Records(rtd) # {}
    /\ DHas(tx_calls[2].msg.routingpaths.m["high_bandwidth"], "B")

-----------------------------------------------------------------------------
(* Transmission on tick *)

\* C29: in a started core a tick() called when now >= next_tx_time calls
\* packet_tx exactly once for each configured interface, with proto "v4" and
\* the configured mcast-v4-tx-addr, and leaves next_tx_time between
\* now + interval and now + interval + jitter; a tick() called when
\* now < next_tx_time calls packet_tx not at all and leaves next_tx_time and
\* every sequence number as they were.
C29_TickTransmits ==
    [][(started /\ op'.name = "tick")
       => IF now >= next_tx_time
          THEN /\ Len(tx_calls') = Len(conf.interfaces)
               /\ \A j \in DOMAIN conf.interfaces :
                     Cardinality(BuiltFor(tx_calls', conf.interfaces[j].name)) = 1
               /\ \A c \in DOMAIN tx_calls' :
                     /\ tx_calls'[c].proto = "v4"
                     /\ tx_calls'[c].dst = conf.mcast_v4
               /\ next_tx_time' \in (now + conf.interval)..(now + conf.interval + conf.jitter)
          ELSE /\ tx_calls' = <<>>
               /\ next_tx_time' = next_tx_time
               /\ \A i \in DOMAIN rtd.interfaces :
                     DGet(rtd'.interfaces, rtd.interfaces[i].k).seq_no_tx
                        = rtd.interfaces[i].v.seq_no_tx]_vars

-----------------------------------------------------------------------------
(* Writers of the neighbour database *)

\* C30: a record of the neighbour database is written by msg_rx for its
\* interface and sender and removed by aging, and by nothing else: every
\* other record a call leaves in the database is the one that was there
\* before, and every stored advertisement, its routingpaths included, is as
\* it was received, with nothing written into it by a recalculation or by
\* building an advertisement.
C30_RecordsAsReceived ==
    [][\A x \in Records(rtd') :
          /\ ~RecordOf(rtd', x.iface, x.id).msg.routingpaths.aliased
          /\ (op'.name = "msg_rx" /\ op'.iface = x.iface /\ op'.id = x.id)
             \/ (/\ HasRecord(rtd, x.iface, x.id)
                 /\ RecordOf(rtd', x.iface, x.id) = RecordOf(rtd, x.iface, x.id))]_vars

-----------------------------------------------------------------------------
(* The interned path characteristics *)

\* the edge "<self>><neighbour>" over an interface the neighbour has a record
\* on, of the characteristics given
EdgeLocal(key, triple) ==
    \E x \in Records(rtd) :
        /\ key = RouteKey(conf.id, x.id)
        /\ SameCharacteristics(ConfIface(conf.interfaces, x.iface).lc, triple)

\* the edge as a neighbour with a record advertises it in metric m, of the
\* characteristics given in that neighbour's table
EdgeAdvertised(m, key, triple) ==
    \E x \in Records(rtd) :
        LET rp == RecordOf(rtd, x.iface, x.id).msg.routingpaths
        IN \E i \in DOMAIN rp.m[m] : \E j \in DOMAIN rp.m[m][i].v.paths :
              LET q == rp.m[m][i].v.paths[j]
              IN /\ q.k = key
                 /\ DHas(rp.path_characteristics, q.v)
                 /\ SameCharacteristics(DGet(rp.path_characteristics, q.v), triple)

\* C31: after a recalculation the keys of fib.path_characteristics are "1"
\* to "n", no two of them name the same loss, bandwidth and cost, and every
\* path number in the paths of every FIB entry is a key of the table, naming
\* the characteristics of its edge: the local interface's for an edge from
\* the node to a neighbour, the advertised ones otherwise.
C31_InternedCharacteristics ==
    RecalculationRan =>
        LET pc == fib.path_characteristics
        IN /\ DKeys(pc) = {NumStr[n] : n \in 1..Len(pc)}
           /\ \A i, j \in DOMAIN pc : SameCharacteristics(pc[i].v, pc[j].v) => i = j
           /\ \A m \in MetricSet : \A i \in DOMAIN fib[m] :
                 \A j \in DOMAIN fib[m][i].v.paths :
                    LET p == fib[m][i].v.paths[j]
                    IN /\ DHas(pc, p.v)
                       /\ \/ EdgeLocal(p.k, DGet(pc, p.v))
                          \/ EdgeAdvertised(m, p.k, DGet(pc, p.v))

-----------------------------------------------------------------------------
(* Weights *)

\* the field of the characteristics that metric m sums
MetricField(m, triple) ==
    CASE m = "low_loss" -> triple.loss
      [] m \in {"high_bandwidth", "bw_and_cost"} -> triple.bandwidth
      [] m = "no_cost" -> triple.cost
      [] m = "bw_and_loss" -> K1 * (10000000 \div triple.bandwidth) + K2 * triple.loss

RECURSIVE SumOfEdges(_, _, _)
\* the sum of the metric's field over the edges, each with the interned
\* characteristics its path number names
SumOfEdges(m, paths, pc) ==
    IF paths = <<>> THEN 0
    ELSE MetricField(m, DGet(pc, Head(paths).v)) + SumOfEdges(m, Tail(paths), pc)

-----------------------------------------------------------------------------
(* Relaxation *)

\* the entry a candidate is installed as
InstalledFrom(call) ==
    [next_hop |-> call.id, networks |-> call.dest_data.networks,
     weight |-> call.weight_update, paths |-> call.dest_data.paths]

\* C33: in the relaxation of any metric a candidate for destination D through
\* neighbour N is installed when D has no entry, takes the place of D's entry
\* when its weight is strictly less than the entry's, and otherwise (equal
\* weight included) leaves the entry as it is; an installed entry has
\* next-hop N, the candidate weight and the networks and paths N advertised
\* for D; no other entry changes.
C33_RelaxationStrictlyLess ==
    [][op'.name = "add_path"
       => LET m == op'.metric
              d == op'.dest_id
          IN /\ \A mm \in MetricSet \ {m} : fib'[mm] = fib[mm]
             /\ fib'.path_characteristics = fib.path_characteristics
             /\ DKeys(fib'[m]) = DKeys(fib[m]) \cup {d}
             /\ \A k \in DKeys(fib[m]) \ {d} : DGet(fib'[m], k) = DGet(fib[m], k)
             /\ IF ~DHas(fib[m], d) \/ op'.weight_update < DGet(fib[m], d).weight
                THEN DGet(fib'[m], d) = InstalledFrom(op')
                ELSE DGet(fib'[m], d) = DGet(fib[m], d)]_vars

\* a candidate through another neighbour, of the weight the entry has, with
\* other networks: the entry stayed
C33_Witness ==
    /\ op.name = "add_path"
    /\ DHas(fib[op.metric], op.dest_id)
    /\ DGet(fib[op.metric], op.dest_id).weight = op.weight_update
    /\ DGet(fib[op.metric], op.dest_id).next_hop # op.id
    /\ DGet(fib[op.metric], op.dest_id).networks # op.dest_data.networks
    /\ op.metric = "high_bandwidth"

-----------------------------------------------------------------------------
(* Topology synthesis *)

\* C34: the neighbours the topology synthesis lists are the ids that have a
\* record, each with the interfaces it has a record on, every interface once,
\* under the one key "<self>><neighbour>": so a neighbour heard on two
\* interfaces is listed with both, with the remaining one once aging has
\* evicted the other record, and not at all once its last record is gone.
C34_NeighbourInterfaces ==
    started =>
        LET neighs == CalcNeighRoutingPaths(conf.id, rtd.interfaces).neighs
        IN /\ DKeys(neighs) = {x.id : x \in Records(rtd)}
           /\ \A i, j \in DOMAIN neighs : neighs[i].k = neighs[j].k => i = j
           /\ \A i \in DOMAIN neighs :
                 LET nd == neighs[i].v
                 IN /\ {nd.ifaces[j] : j \in DOMAIN nd.ifaces} = HeardOn(neighs[i].k)
                    /\ Len(nd.ifaces) = Cardinality(HeardOn(neighs[i].k))
                    /\ nd.route = RouteKey(conf.id, neighs[i].k)
                    /\ nd.next_hop = neighs[i].k

\* B was heard on both interfaces, a tick evicted one of the two records, and
\* the FIB of that tick has B over the interface that is left
C34_Witness ==
    /\ started
    /\ op.name = "tick"
    /\ rtu_calls # <<>>
    /\ {x.iface : x \in {y \in hist.stored : y.id = "B"}} = {"w0", "t0"}
    /\ HeardOn("B") = {"t0"}
    /\ DHas(fib.high_bandwidth, "B")
    /\ DGet(fib.high_bandwidth, "B").weight = LinkSlow.bandwidth

-----------------------------------------------------------------------------
(* The tables handed to the installer *)

RECURSIVE NetworksOf(_)
\* the networks of the entries of a metric's FIB, entry after entry
NetworksOf(f) ==
    IF f = <<>> THEN <<>> ELSE Head(f).v.networks \o NetworksOf(Tail(f))

\* C35: every table handed to routing_table_update has the five keys
\* lowest-loss, highest-bandwidth, formular_bw_loss, no-cost and
\* filtered-bw-cost and no other, and under each key one row for each network
\* of each entry of the metric's FIB and no other row, each row with proto
\* "v4" and the prefix and the prefix-len of its network.
C35_InstalledTables ==
    \A c \in DOMAIN rtu_calls :
        LET tables == rtu_calls[c].tables
        IN /\ ~rtu_calls[c].none
           /\ Len(tables) = 5
           /\ DKeys(tables) = {"lowest-loss", "highest-bandwidth", "formular_bw_loss",
                               "no-cost", "filtered-bw-cost"}
           /\ \A m \in MetricSet :
                 LET rows == DGet(tables, TableKey(m))
                     networks == NetworksOf(fib[m])
                 IN /\ Len(rows) = Len(networks)
                    /\ \A r \in DOMAIN rows :
                          /\ rows[r].proto = "v4"
                          /\ rows[r].prefix \o <<"/">> \o rows[r].prefix_len = networks[r]
                          /\ Len(rows[r].prefix) = 1
                          /\ Len(rows[r].prefix_len) = 1

\* B and C heard, C on the interface with a cost only: two rows under
\* lowest-loss and one under no-cost
C35_Witness ==
    /\ Len(rtu_calls) = 1
    /\ Len(DGet(rtu_calls[1].tables, "lowest-loss")) = 2
    /\ Len(DGet(rtu_calls[1].tables, "no-cost")) = 1
    /\ Len(fib.low_loss) = 2

-----------------------------------------------------------------------------
(* The chain A - B - C *)

\* the records the chain's cores hold: [node, iface, id, rx_time]
ChainRecords ==
    UNION {{[node |-> n, iface |-> x.iface, id |-> x.id,
             rx_time |-> DGet(DGet(net[n].interfaces, x.iface).rx_msg_db, x.id).rx_time] :
               x \in Records([interfaces |-> net[n].interfaces])} : n \in ChainNodes}

\* C36: in the chain A - B - C of started cores, every advertisement handed
\* to the neighbours on the link and every core ticking once a second, A's
\* low_loss, high_bandwidth and bw_and_loss FIBs come to hold, and then keep,
\* an entry for C with next-hop B, and once the second round of
\* advertisements is over no FIB of the three cores changes any more. (At A
\* and at C every msg_rx that recalculates ends in the KeyError of the
\* bw_and_loss table, after the three FIBs have been written.)
C36_ChainConverges ==
    /\ <>[]ChainConverged
    /\ [][now > ChainSettled => ChainFibs' = ChainFibs]_vars

\* converged, and B's advertisement of a later round has reached A
C36_Witness ==
    /\ net # <<>>
    /\ ChainConverged
    /\ now > ChainSettled
    /\ \E x \in ChainRecords : x.node = "A" /\ x.id = "B" /\ x.rx_time > ChainSettled
    /\ \E x \in ChainRecords : x.node = "B" /\ x.id = "A" /\ x.rx_time > ChainSettled

-----------------------------------------------------------------------------
(* Next-hops *)

\* the neighbours with a record on some interface
NeighIds == {x.id : x \in Records(rtd)}

\* C37: after a recalculation, in the FIB of every metric the next-hop of
\* every entry is a neighbour with a record on some interface, has an entry
\* of its own in that FIB, and the entry's paths hold the edge from this node
\* to the next-hop, also when the next-hop's own entry was replaced by a
\* route through another neighbour.
C37_NextHopEdge ==
    RecalculationRan =>
        \A m \in MetricSet : \A i \in DOMAIN fib[m] :
            LET e == fib[m][i].v
            IN /\ e.next_hop \in NeighIds
               /\ DHas(fib[m], e.next_hop)
               /\ DHas(e.paths, RouteKey(conf.id, e.next_hop))

-----------------------------------------------------------------------------
(* A core that is not started *)

\* C38: while the core is not started, before the first start() and between
\* stop() and the next start(), no call but start() changes the neighbour
\* database, the FIB or the routing table or calls the transmit callback or
\* the installer; msg_rx stores nothing and recalculates nothing.
C38_StoppedCoreIsInert ==
    [][(~started /\ op'.name \notin {"start", "restart"})
           => /\ rtd' = rtd
              /\ fib' = fib
              /\ routing_table' = routing_table
              /\ tx_calls' = <<>>
              /\ rtu_calls' = <<>>]_vars

-----------------------------------------------------------------------------
(* A neighbour that restarts *)

\* C39: B is restarted, its sequence numbers beginning at 0 again, while A
\* holds a record of B with a higher one; both cores tick once a second and A
\* gets every advertisement of B. Then A comes to store an advertisement B
\* sent after the restart; an advertisement B sent after the restart is
\* dropped exactly when A holds a record of B whose sequence number it does
\* not exceed, that is until the record is evicted at its hold time or B's
\* counter has passed it; and a dropped advertisement leaves the record, its
\* rx-time included, as it was.
C39_RestartedNeighbour ==
    /\ (hist.start # None) ~> (hist.stored # {})
    /\ [][(hist.start # None /\ op'.name = "tick" /\ op'.id = "B" /\ tx_calls' # <<>>)
              => IF HeldSeq(net) # None /\ tx_calls'[1].msg.seq_no <= HeldSeq(net)
                 THEN net'["A"].interfaces = net["A"].interfaces
                 ELSE /\ HeldSeq(net') = tx_calls'[1].msg.seq_no
                      /\ HeldSince(net') = now]_vars

\* after the restart A has dropped B's advertisement 0 and then stored one
\* whose sequence number is above the one of the record it held
C39_Witness ==
    /\ hist.start # None
    /\ \E x \in hist.stored : x.over # None /\ x.over >= 1 /\ x.seq > x.over

-----------------------------------------------------------------------------
(* The destinations of the FIBs *)

\* the destinations the neighbours with a record advertise under metric m
AdvertisedDests(m) ==
    UNION {DKeys(Advertised(x.iface, x.id, m)) : x \in Records(rtd)}

\* C40: after a recalculation every neighbour with a record on some
\* interface is a destination of the low_loss, the high_bandwidth and the
\* bw_and_loss FIB, and every destination of the FIB of any metric is such a
\* neighbour or is advertised by one under that metric.
C40_FibDestinations ==
    RecalculationRan =>
        /\ \A n \in NeighIds : \A m \in {"low_loss", "high_bandwidth", "bw_and_loss"} :
               DHas(fib[m], n)
        /\ \A m \in MetricSet : DKeys(fib[m]) \subseteq NeighIds \cup AdvertisedDests(m)

====
